---- MODULE Spec2Model ----
(***************************************************************************)
(* A model of the retirement planner ARP-Lab (src/arp.py, src/tax2024.py,  *)
(* src/rates.py, src/utils.py): the deposit/withdrawal allocator           *)
(* (_smartBanking, _smartBankingSub) and the yearly simulation loop        *)
(* Plan.run().                                                             *)
(*                                                                         *)
(* Money is an integer number of dollars. Python computes in floating     *)
(* point; where a product with a fraction is not a whole number the model  *)
(* drops the fractional part (towards zero).  A ratio is a record          *)
(* [num, den] standing for num/den, a percentage is an integer.            *)
(***************************************************************************)
EXTENDS Integers, Sequences, FiniteSets, TLC

VARIABLES
    plan,          \* attributes of Plan set before run(): count, yob, horizons, ...
    success,       \* Plan.success
    y2accounts,    \* Plan.y2accounts[aType][year][who]
    y2source,      \* Plan.y2source[key][year][who]
    yincome,       \* Plan.yincome[key][year]
    pc,            \* position of the caller inside run()
    n,             \* year index of the loop of run()
    who,           \* individual index of the inner loop of run()
    surviving,     \* local of run()
    wdrlRatio,     \* local of run()
    depRatio,      \* local of run()
    filingStatus,  \* local of run()
    rawTarget,     \* local of run()
    btiEvent,      \* local of run()
    withdrawal,    \* local of run()
    kround,        \* loop index k of the withdrawal solver
    estimatedTax,  \* local of run()
    gap,           \* local of run()
    xfer,          \* the latest call of _transferWealth: arguments, accounts before and after
    timeLists,     \* Plan.timeLists[who]: the schedule rows read so far, by year
    last,          \* the latest call of _smartBanking: arguments, balances before, result
    ncalls,        \* allocator calls counted: [eval, commit]
    runs,          \* calls of run() that have returned
    prior,         \* what the call of run() before the present one left behind
    rmdCall,       \* the latest call of rmdFraction: arguments and result
    dr,            \* the rates object of the latest call of Plan.setRates
    load,          \* the latest call of Plan.readContributions: the file and the outcome
    ar             \* Plan.coordinatedAR, Plan.boundsAR, Plan.y2assetRatios

vars == <<plan, success, y2accounts, y2source, yincome, pc, n, who, surviving,
          wdrlRatio, depRatio, filingStatus, rawTarget, btiEvent, withdrawal,
          kround, estimatedTax, gap, xfer, timeLists, last, ncalls, runs, prior,
          rmdCall, dr, load, ar>>

\* What a call of run() leaves alone unless it is a repeated call.
aside == <<runs, prior, rmdCall, dr, load, ar>>

runVars == <<success, y2source, yincome, pc, n, who, surviving, wdrlRatio,
             depRatio, filingStatus, rawTarget, btiEvent, withdrawal, kround,
             estimatedTax, gap, xfer, timeLists, aside>>

-----------------------------------------------------------------------------
(* Arithmetic helpers. *)

Abs(x) == IF x < 0 THEN -x ELSE x

Min(a, b) == IF a <= b THEN a ELSE b

Max(a, b) == IF a >= b THEN a ELSE b

\* F(v), with v computed once.
With(v, F(_)) == CHOOSE r \in {F(x) : x \in {v}} : TRUE

\* a*b/c for c > 0, the fractional part dropped; written so that no
\* intermediate product leaves the 32-bit integers.
RECURSIVE MulDivRem(_, _, _)
\* <<q, s>> with r * k = q * c + s and 0 <= s < c, for 0 <= r < c, by halving k.
MulDivRem(r, k, c) ==
    IF k = 0 THEN <<0, 0>>
    ELSE With(MulDivRem(r, k \div 2, c), LAMBDA h :
              <<2 * h[1] + (2 * h[2] + (k % 2) * r) \div c,
                (2 * h[2] + (k % 2) * r) % c>>)

\* m*k/c for m, k >= 0.
MulDivAbs(m, k, c) ==
    IF m < 46341 /\ k < 46341 THEN (m * k) \div c
    ELSE (m \div c) * k + MulDivRem(m % c, k, c)[1]

MulDiv(a, b, c) ==
    With(<<a, b>>, LAMBDA x :
         IF (x[1] < 0) # (x[2] < 0)
         THEN -MulDivAbs(Abs(x[1]), Abs(x[2]), c)
         ELSE MulDivAbs(Abs(x[1]), Abs(x[2]), c))

Ratio(num, den) == [num |-> num, den |-> den]

One == Ratio(1, 1)

AccountTypes == {"taxable", "tax-deferred", "tax-free"}

Zeros2(years, cnt) == [y \in 0..(years - 1) |-> [i \in 0..(cnt - 1) |-> 0]]

Zeros1(years) == [y \in 0..(years - 1) |-> 0]

-----------------------------------------------------------------------------
(* The allocator: _smartBankingSub and _smartBanking. *)

\* A write that ignores commit.
StoreAlways(arr, year, i, v, commit) == [arr EXCEPT ![year][i] = v]

\* "if commit: arr[year][i] = v"
Store(arr, year, i, v, commit) ==
    IF commit THEN [arr EXCEPT ![year][i] = v] ELSE arr

\* A waterfall that reports the amount requested as the total even when short.
WaterfallReportsRequested(wd, t, d, f) ==
    IF wd <= t THEN [itemized |-> <<wd, 0, 0, wd>>, t |-> t - wd, d |-> d, f |-> f]
    ELSE IF wd - t <= d
         THEN [itemized |-> <<t, wd - t, 0, wd>>, t |-> 0, d |-> d - (wd - t), f |-> f]
    ELSE IF wd - t - d <= f
         THEN [itemized |-> <<t, d, wd - t - d, wd>>, t |-> 0, d |-> 0, f |-> f - (wd - t - d)]
    ELSE [itemized |-> <<t, d, f, wd>>, t |-> 0, d |-> 0, f |-> 0]

\* A waterfall that drains tax-free before tax-deferred.
WaterfallFreeFirst(wd, t, d, f) ==
    IF wd <= t THEN [itemized |-> <<wd, 0, 0, wd>>, t |-> t - wd, d |-> d, f |-> f]
    ELSE IF wd - t <= f
         THEN [itemized |-> <<t, 0, wd - t, wd>>, t |-> 0, d |-> d, f |-> f - (wd - t)]
    ELSE IF wd - t - f <= d
         THEN [itemized |-> <<t, wd - t - f, f, wd>>, t |-> 0, d |-> d - (wd - t - f), f |-> 0]
    ELSE [itemized |-> <<t, d, f, t + d + f>>, t |-> 0, d |-> 0, f |-> 0]

\* The amounts [taxable, tax-deferred, tax-free, total] a withdrawal wd takes
\* from balances t, d, f, and the balances it leaves.
Waterfall(wd, t, d, f) ==
    IF wd <= t
    THEN [itemized |-> <<wd, 0, 0, wd>>, t |-> t - wd, d |-> d, f |-> f]
    ELSE LET portion1 == t
             remain1 == wd - portion1
         IN  IF remain1 <= d
             THEN [itemized |-> <<portion1, remain1, 0, wd>>,
                   t |-> 0, d |-> d - remain1, f |-> f]
             ELSE LET portion2 == d
                      remain2 == remain1 - portion2
                  IN  IF remain2 <= f
                      THEN [itemized |-> <<portion1, portion2, remain2, wd>>,
                            t |-> 0, d |-> 0, f |-> f - remain2]
                      ELSE LET portion3 == f
                               remain3 == remain2 - portion3
                           IN  [itemized |-> <<portion1, portion2, portion3, wd - remain3>>,
                                t |-> 0, d |-> 0, f |-> 0]

\* The arrays after a withdrawal w, written only "if commit".
Withdrawn(taxable, taxdef, taxfree, year, i, commit, w) ==
    [itemized |-> w.itemized,
     taxable |-> Store(taxable, year, i, w.t, commit),
     taxdef |-> Store(taxdef, year, i, w.d, commit),
     taxfree |-> Store(taxfree, year, i, w.f, commit)]

\* _smartBankingSub: the itemized list and the three arrays after the call.
SmartBankingSub(amount, taxable, taxdef, taxfree, year, i, commit) ==
    IF amount = 0
    THEN [itemized |-> <<0, 0, 0, 0>>,
          taxable |-> taxable, taxdef |-> taxdef, taxfree |-> taxfree]
    ELSE IF amount > 0
    THEN [itemized |-> <<0, 0, 0, amount>>,
          taxable |-> Store(taxable, year, i, taxable[year][i] + amount, commit),
          taxdef |-> taxdef, taxfree |-> taxfree]
    ELSE With(Waterfall(Abs(amount), taxable[year][i], taxdef[year][i],
                        taxfree[year][i]), LAMBDA w :
              Withdrawn(taxable, taxdef, taxfree, year, i, commit, w))

\* "assert (0 <= wdrlRatio and wdrlRatio <= 1.)"
ValidRatio(r) == r.den > 0 /\ 0 <= r.num /\ r.num <= r.den

\* Every individual gets ratio*amount.
SubAmountSame(ratio, i, amount) == MulDiv(amount, ratio.num, ratio.den)

\* Individual 0 gets the whole amount.
SubAmountIgnoresRatio(ratio, i, amount) == IF i = 0 THEN amount ELSE 0

\* "subAmount = (wdrlRatio - 2*i*wdrlRatio + i)*amount"
SubAmount(ratio, i, amount) ==
    MulDiv(amount, ratio.num - 2 * i * ratio.num + i * ratio.den, ratio.den)

\* "amounts[...].append(itemized[...]); totAmount += itemized[3]"
Accumulate(st, sub) ==
    [taxable |-> sub.taxable, taxdef |-> sub.taxdef, taxfree |-> sub.taxfree,
     items |-> Append(st.items, sub.itemized),
     tot |-> st.tot + sub.itemized[4]]

\* "for i in range(len(names))", from individual i on.
RECURSIVE BankingLoop(_, _, _, _, _, _, _)
BankingLoop(i, cnt, amount, year, ratio, commit, st) ==
    IF i >= cnt THEN st
    ELSE With(SubAmount(ratio, i, amount), LAMBDA subAmount :
         With(SmartBankingSub(subAmount, st.taxable, st.taxdef, st.taxfree,
                              year, i, commit), LAMBDA sub :
         With(Accumulate(st, sub), LAMBDA st1 :
              BankingLoop(i + 1, cnt, amount, year, ratio, commit, st1))))

RECURSIVE SumItems(_, _, _)
SumItems(items, bucket, j) ==
    IF j = 0 THEN 0 ELSE items[j][bucket] + SumItems(items, bucket, j - 1)

\* amounts[key][0] is the total, amounts[key][i+1] the part of individual i.
ItemList(items, bucket) ==
    [j \in 0..Len(items) |->
        IF j = 0 THEN SumItems(items, bucket, Len(items)) ELSE items[j][bucket]]

\* _smartBanking: (amounts, totAmount) and the three arrays after the call.
\* "amounts[aType].insert(0, sum(amounts[aType]))" and the returned pair.
Returned(st) ==
    [amounts |-> [taxable |-> ItemList(st.items, 1),
                  taxdef |-> ItemList(st.items, 2),
                  taxfree |-> ItemList(st.items, 3)],
     total |-> st.tot,
     taxable |-> st.taxable, taxdef |-> st.taxdef, taxfree |-> st.taxfree]

SmartBanking(amount, taxable, taxdef, taxfree, year, ratio, cnt, commit) ==
    With([taxable |-> taxable, taxdef |-> taxdef, taxfree |-> taxfree,
          items |-> <<>>, tot |-> 0], LAMBDA st0 :
    With(BankingLoop(0, cnt, amount, year, ratio, commit, st0), LAMBDA st :
         Returned(st)))

\* A call of _smartBanking on the plan's accounts.
Bank(amount, year, ratio, commit) ==
    SmartBanking(amount, y2accounts["taxable"], y2accounts["tax-deferred"],
                 y2accounts["tax-free"], year, ratio, plan.count, commit)

AccountsAfter(r) ==
    [a \in AccountTypes |->
        IF a = "taxable" THEN r.taxable
        ELSE IF a = "tax-deferred" THEN r.taxdef ELSE r.taxfree]

\* What the caller of _smartBanking sees of a call: its arguments, the accounts
\* before it and its result; repeat says that the call before it was a
\* non-committing call with the same arguments, agree that it returned the same.
CallRecord(amount, year, ratio, commit, pre, r) ==
    LET rep == /\ last.called /\ ~last.commit /\ ~commit
               /\ last.amount = amount /\ last.year = year /\ last.ratio = ratio
    IN  [called |-> TRUE, amount |-> amount, year |-> year, ratio |-> ratio,
         commit |-> commit, pre |-> pre, amounts |-> r.amounts,
         total |-> r.total, repeat |-> rep,
         agree |-> rep /\ last.amounts = r.amounts /\ last.total = r.total]

NoCall ==
    [called |-> FALSE, amount |-> 0, year |-> 0, ratio |-> One, commit |-> FALSE,
     pre |-> << >>, amounts |-> << >>, total |-> 0, repeat |-> FALSE,
     agree |-> FALSE]

-----------------------------------------------------------------------------
(* The tax module src/tax2024.py.  A rate series is a function from the year *)
(* index to <<stocks, bonds, treasury notes, inflation>> in percent.          *)

\* "index = year - 2024"
TaxRefYear == 2024

\* rates[i] with Python's indexing: a negative index counts from the end.
RateRow(rates, i) ==
    LET len == Cardinality(DOMAIN rates)
    IN  IF i < 0 THEN rates[len + i] ELSE rates[i]

RECURSIVE Inflate(_, _, _, _)
Inflate(base, rates, i, index) ==
    IF i >= index THEN base
    ELSE With(MulDiv(base, 100 + RateRow(rates, i)[4], 100), LAMBDA fac :
              Inflate(fac, rates, i + 1, index))

\* inflationAdjusted(base, year, rates, refIndex), for index >= refIndex.
InflationAdjusted(base, year, rates, refIndex) ==
    LET index == IF year > 1000 THEN year - TaxRefYear ELSE year
    IN  Inflate(base, rates, refIndex, index)

\* Premiums in cents.
IrmaaTable(status) ==
    IF status = "married"
    THEN << <<206000, 0>>, <<258000, 83880>>, <<322000, 209640>>,
            <<386000, 335400>>, <<750000, 461160>>, <<99999999, 503160>> >>
    ELSE << <<103000, 0>>, <<129000, 83880>>, <<161000, 209640>>,
            <<193000, 335400>>, <<500000, 461160>>, <<99999999, 503160>> >>

RECURSIVE IrmaaLoop(_, _, _, _, _)
IrmaaLoop(magi, table, j, year, rates) ==
    IF j > Len(table) THEN -1
    ELSE IF magi < InflationAdjusted(table[j][1], year, rates, 0)
         THEN InflationAdjusted(table[j][2], year, rates, 0)
         ELSE IrmaaLoop(magi, table, j + 1, year, rates)

\* irmaa(magi, status, year, rates), in cents.
Irmaa(magi, status, year, rates) ==
    IrmaaLoop(magi, IrmaaTable(status), 1, year, rates)

RECURSIVE Ded65Married(_, _, _, _)
Ded65Married(yobs, j, year, rates) ==
    IF j > Len(yobs) THEN 0
    ELSE (IF year - yobs[j] >= 65 THEN InflationAdjusted(1550, year, rates, 0) ELSE 0)
         + Ded65Married(yobs, j + 1, year, rates)

\* stdDeduction(yobs, status, year, rates); yobs is a sequence.
StdDeduction(yobs, status, year, rates) ==
    LET ded65 == IF status = "single"
                 THEN InflationAdjusted(1950, year, rates, 0)
                 ELSE Ded65Married(yobs, 1, year, rates)
        ded2017 == IF status = "single" THEN 8250 ELSE 16500
        ded2024 == IF status = "single" THEN 14600 ELSE 29200
    IN  IF year <= 2025
        THEN ded65 + InflationAdjusted(ded2024, year, rates, 0)
        ELSE ded65 + InflationAdjusted(ded2017, year, rates, 0)

\* A table whose divisors do not change with age.
RmdTableFlat == [k \in 1..34 |-> 274]

\* rmdFraction(year, yob) as a ratio; the table holds ten times the divisor.
RmdTable ==
    <<274, 265, 255, 246, 237, 229, 220, 211, 202, 194, 185, 177, 168, 160,
      152, 144, 137, 129, 122, 115, 108, 101, 95, 89, 84, 78, 73, 68, 64, 60,
      56, 52, 49, 46>>

RmdFraction(year, yob) ==
    LET yage == year - yob
    IN  IF (year > 2032 /\ yage < 75) \/ (year > 2023 /\ yage < 73) \/ (yage < 72)
        THEN Ratio(0, 1)
        ELSE Ratio(10, RmdTable[yage - 72 + 1])

\* The tax tables: <<upper end of the bracket, rate in 1/1000>>.
TaxTable(status, year) ==
    IF status = "single"
    THEN IF year < 2026
         THEN << <<11600, 100>>, <<47150, 120>>, <<100525, 220>>, <<191950, 240>>,
                 <<243725, 320>>, <<609350, 350>>, <<99999999, 370>> >>
         ELSE << <<12100, 100>>, <<49300, 150>>, <<119500, 250>>, <<249100, 280>>,
                 <<541700, 330>>, <<543900, 350>>, <<99999999, 396>> >>
    ELSE IF year < 2026
         THEN << <<23200, 100>>, <<94300, 120>>, <<201050, 220>>, <<383900, 240>>,
                 <<487450, 320>>, <<731200, 350>>, <<99999999, 370>> >>
         ELSE << <<24200, 100>>, <<98700, 150>>, <<199000, 250>>, <<303350, 280>>,
                 <<541700, 330>>, <<611900, 350>>, <<99999999, 396>> >>

\* The loop of calcTax from bracket j on; the tax is summed in 1/1000 dollar.
RECURSIVE CalcTaxLoop(_, _, _, _, _, _)
RECURSIVE BracketTax(_, _, _, _, _, _, _)
BracketTax(income, table, j, prevBracket, nowBracket, year, rates) ==
    IF income > nowBracket
    THEN (nowBracket - prevBracket) * table[j][2]
         + CalcTaxLoop(income, table, j + 1, nowBracket, year, rates)
    ELSE (income - prevBracket) * table[j][2]

CalcTaxLoop(income, table, j, prevBracket, year, rates) ==
    IF j > Len(table) THEN 0
    ELSE With(InflationAdjusted(table[j][1], year, rates, 0), LAMBDA nowBracket :
              BracketTax(income, table, j, prevBracket, nowBracket, year, rates))

\* calcTax(income, year, rates, taxTable), in dollars.
CalcTax(income, year, rates, taxTable) ==
    IF income <= 0 THEN 0
    ELSE CalcTaxLoop(income, taxTable, 1, 0, year, rates) \div 1000

\* incomeTax(agi, yobs, status, year, rates)
IncomeTax(agi, yobs, status, year, rates) ==
    With(agi - StdDeduction(yobs, status, year, rates), LAMBDA taxbleIncome :
         CalcTax(taxbleIncome, year, rates, TaxTable(status, year)))

-----------------------------------------------------------------------------
(* The allocator on its own: any sequence of calls of _smartBanking, with any *)
(* amount and split ratio, on the accounts of one year.                       *)

MaxCalls == 2

BankUnit == 8

BankYear == 1

BankAmounts == {-32, -12, -4, 0, 8}

BankRatios == {Ratio(0, 4), Ratio(1, 4), Ratio(4, 4)}

BankInit ==
    /\ \E c \in {1, 2} : plan = [count |-> c]
    /\ \E t, d, f \in [0..(plan.count - 1) -> {0, BankUnit}] :
           y2accounts = [a \in AccountTypes |->
               [y \in 0..BankYear |->
                   IF y # BankYear THEN [i \in 0..(plan.count - 1) |-> 0]
                   ELSE IF a = "taxable" THEN t
                   ELSE IF a = "tax-deferred" THEN d ELSE f]]
    /\ last = NoCall
    /\ ncalls = [eval |-> 0, commit |-> 0]
    /\ timeLists = << >>
    /\ success = TRUE
    /\ y2source = << >>
    /\ yincome = << >>
    /\ pc = "bank"
    /\ n = 0
    /\ who = 0
    /\ surviving = plan.count
    /\ wdrlRatio = One
    /\ depRatio = One
    /\ filingStatus = "single"
    /\ rawTarget = 0
    /\ btiEvent = 0
    /\ withdrawal = 0
    /\ kround = 0
    /\ estimatedTax = 0
    /\ gap = 0
    /\ xfer = [called |-> FALSE]
    /\ runs = 0
    /\ prior = << >>
    /\ rmdCall = << >>
    /\ dr = << >>
    /\ load = << >>
    /\ ar = << >>

BankCall(amount, ratio, commit) ==
    /\ pc = "bank"
    /\ ncalls.eval + ncalls.commit < MaxCalls
    /\ ValidRatio(ratio)
    /\ LET r == Bank(amount, BankYear, ratio, commit)
       IN  /\ y2accounts' = AccountsAfter(r)
           /\ last' = CallRecord(amount, BankYear, ratio, commit, y2accounts, r)
    /\ ncalls' = IF commit THEN [ncalls EXCEPT !.commit = @ + 1]
                 ELSE [ncalls EXCEPT !.eval = @ + 1]
    /\ UNCHANGED <<plan, runVars>>

\* _smartBanking(amount, ..., ratio, names, True)
BankCommit == \E amount \in BankAmounts, ratio \in BankRatios : BankCall(amount, ratio, TRUE)

\* _smartBanking(amount, ..., ratio, names, False)
BankEvaluate == \E amount \in BankAmounts, ratio \in BankRatios : BankCall(amount, ratio, FALSE)

BankNext == BankCommit \/ BankEvaluate

SpecBank == BankInit /\ [][BankNext]_vars

-----------------------------------------------------------------------------
(* The plan: what Plan.__init__ and the setters leave before run().         *)

\* "now = datetime.date.today().year"
ThisYear == 2024

Age(yob) == ThisYear - yob

\* self.y2ages[n][i]
Y2ages(nn, i) == Age(plan.yob[i]) + nn

\* self.yyear[n]
Yyear(nn) == ThisYear + nn

YobSeq == [j \in 1..plan.count |-> plan.yob[j - 1]]

\* _pfReturn(assetRatios, rates, year, who), in 1/10000.
PfReturn(assetRatios, rates, year, i) ==
    assetRatios[1] * rates[year][1] + assetRatios[2] * rates[year][2]
    + assetRatios[3] * rates[year][3] + assetRatios[4] * rates[year][4]

\* "(balance + 0.5*ctrb) * _pfReturn(...)"
Growth(balance, ctrb, pf) == MulDiv(2 * balance + ctrb, pf, 20000)

SmileTable ==
    <<1000, 1010, 1015, 1010, 1000, 993, 978, 960, 940, 918, 895, 871, 848, 825,
      804, 785, 769, 757, 748, 744, 745, 752, 766, 787, 815, 852, 899, 955,
      1021, 1059, 1100, 1121, 1141, 1151, 1161, 1171>>

\* "assert (age <= 100)"
AgeAsserted(age) == age <= 100

\* _spendingAdjustment(age, profile), in 1/1000, for age <= 100.
SpendingAdjustment(age, profile) ==
    IF age <= 65 \/ profile = "flat" THEN 1000 ELSE SmileTable[age - 65 + 1]

\* Plan._computePension(n, i)
ComputePension(nn, i) ==
    IF Y2ages(nn, i) >= plan.pensionAge[i] THEN plan.pensionAmount[i] ELSE 0

\* Plan._computeSS(n, who)
ComputeSS(nn, i) ==
    IF Y2ages(nn, i) < plan.ssecAge[i] THEN 0
    ELSE InflationAdjusted(plan.ssecAmount[i], nn, plan.rates,
                           plan.yob[i] + plan.ssecAge[i] - ThisYear)

SumOver(arr, year) ==
    IF plan.count = 1 THEN arr[year][0] ELSE arr[year][0] + arr[year][1]

\* Plan._getSplit(oldsplit, amount, n, surviving)
GetSplit(oldsplit, amount, nn, surv) ==
    IF surv = 1 THEN oldsplit
    ELSE IF ~plan.split.auto THEN plan.split.ratio
    ELSE LET s1 == SumOver(y2accounts["taxable"], nn)
             s2 == SumOver(y2accounts["tax-deferred"], nn)
             s3 == SumOver(y2accounts["tax-free"], nn)
             t0 == y2accounts["taxable"][nn][0]
             d0 == y2accounts["tax-deferred"][nn][0]
             f0 == y2accounts["tax-free"][nn][0]
         IN  IF Abs(amount) <= s1 THEN Ratio(t0, s1 + 1)
             ELSE IF Abs(amount) <= s2 THEN Ratio(t0 + d0, s1 + s2 + 1)
             ELSE Ratio(t0 + d0 + f0, s1 + s2 + s3 + 1)

\* A transfer of the whole balance, whatever the beneficiary fraction.
TransferWealthKeepsAll(accounts, year, late) ==
    LET other == (late + 1) % 2
    IN  [a \in AccountTypes |->
            [accounts[a] EXCEPT
                ![year][other] = @ + accounts[a][year][late],
                ![year][late] = 0]]

\* Plan._transferWealth(year, late): the accounts after the transfer.
TransferWealth(accounts, year, late) ==
    LET other == (late + 1) % 2
    IN  [a \in AccountTypes |->
            [accounts[a] EXCEPT
                ![year][other] = @ + MulDiv(accounts[a][year][late],
                                            plan.beneficiary[late].num,
                                            plan.beneficiary[late].den),
                ![year][late] = 0]]

-----------------------------------------------------------------------------
(* The contribution schedule: one row per individual and year.              *)

Items ==
    {"anticipated income", "ctrb taxable", "ctrb 401k", "ctrb Roth 401k",
     "ctrb IRA", "ctrb Roth IRA", "Roth X", "big ticket items"}

Row(income, cTaxable, c401k, cRoth401k, rothX, bti) ==
    [item \in Items |->
        CASE item = "anticipated income" -> income
          [] item = "ctrb taxable" -> cTaxable
          [] item = "ctrb 401k" -> c401k
          [] item = "ctrb Roth 401k" -> cRoth401k
          [] item = "Roth X" -> rothX
          [] item = "big ticket items" -> bti
          [] OTHER -> 0]

Quiet == Row(0, 0, 0, 0, 0, 0)

\* A year of work, a Roth conversion, a purchase, a windfall, and money taken
\* back out of the taxable contributions.
EventRows ==
    {Row(90000, 10000, 10000, 5000, 0, 0),
     Row(0, 0, 0, 0, 60000, 0),
     Row(0, 0, 0, 0, 0, -120000),
     Row(0, 0, 0, 0, 0, 40000),
     Row(0, -20000, 0, 0, 0, 0)}

\* "Verify that all numbers except bti are positive", were it applied to the
\* row of every year.
CheckTimeListsAnyYear(i, nn, row) ==
    \A item \in Items \ {"big ticket items"} : row[item] >= 0

\* "assert timeLists[i][item][i] >= 0": of the lists of individual i,
\* _checkTimeLists looks at entry i only, and only if horizons[i] > 0.
CheckTimeLists(i, nn, row) ==
    (plan.horizons[i] > 0 /\ nn = i) =>
        \A item \in Items \ {"big ticket items"} : row[item] >= 0

MaxEvents == 1

EventsRead ==
    LET Ev(i) == Cardinality({y \in DOMAIN timeLists[i] : timeLists[i][y] # Quiet})
    IN  IF plan.count = 1 THEN Ev(0) ELSE Ev(0) + Ev(1)

-----------------------------------------------------------------------------
(* Plan.run(): the state before the first run.                              *)

MaxHorizon == 2

Who == 0..(plan.count - 1)

ZeroRates == <<0, 0, 0, 0>>

GrowthRates == <<10, 4, 3, 2>>

\* The default allocation ratios of Plan.__init__, in percent; initial and
\* final bounds are equal, so every year of the interpolated table holds them.
AssetRatios(aType) ==
    IF aType = "taxable" THEN <<0, 25, 50, 25>> ELSE <<60, 40, 0, 0>>

\* self.survivorFraction, set by setSurvivorFraction(0.6)
SurvivorFraction == Ratio(6, 10)

Ample ==
    [a \in AccountTypes |->
        IF a = "taxable" THEN <<40000, 10000>>
        ELSE IF a = "tax-deferred" THEN <<300000, 0>> ELSE <<50000, 20000>>]

Thin ==
    [a \in AccountTypes |->
        IF a = "taxable" THEN <<20000, 0>>
        ELSE IF a = "tax-deferred" THEN <<30000, 10000>> ELSE <<0, 5000>>]

\* self.split: 'auto', or the fraction given to setSpousalSplit.
AutoSplit == [auto |-> TRUE, ratio |-> One]

FixedSplit(ratio) == [auto |-> FALSE, ratio |-> ratio]

\* The plan of a household of c individuals with horizons h, balances b (of
\* which the first c entries are used), beneficiary fractions ben, spousal
\* split sp and the fixed rates rt.
MakePlan(c, h, b, ben, sp, rt) ==
    LET yob == [i \in 0..(c - 1) |-> IF i = 0 THEN 1950 ELSE 1959]
        expectancy == [i \in 0..(c - 1) |-> h[i] + ThisYear - yob[i]]
        horizons == [i \in 0..(c - 1) |-> expectancy[i] + yob[i] - ThisYear]
        maxHorizon == (IF c = 1 THEN horizons[0] ELSE Max(horizons[0], horizons[1])) + 2
    IN  [count |-> c,
         status |-> IF c = 1 THEN "single" ELSE "married",
         yob |-> yob,
         expectancy |-> expectancy,
         horizons |-> horizons,
         maxHorizon |-> maxHorizon,
         n2balances |-> [a \in AccountTypes |-> [i \in 0..(c - 1) |-> b[a][i + 1]]],
         beneficiary |-> [i \in 0..(c - 1) |-> ben],
         split |-> sp,
         target |-> 60000,
         profile |-> "smile",
         pensionAmount |-> [i \in 0..(c - 1) |-> IF i = 0 THEN 0 ELSE 12000],
         pensionAge |-> [i \in 0..(c - 1) |-> 65],
         ssecAmount |-> [i \in 0..(c - 1) |-> IF i = 0 THEN 30000 ELSE 0],
         ssecAge |-> [i \in 0..(c - 1) |-> IF i = 0 THEN 72 ELSE 67],
         rates |-> [y \in 0..(maxHorizon - 1) |-> rt]]

Plans ==
    {MakePlan(1, [i \in {0} |-> MaxHorizon], b, One, AutoSplit, rt) :
        b \in {Ample, Thin}, rt \in {ZeroRates, GrowthRates}}
    \cup
    {MakePlan(2, h, s[1], s[2], sp, rt) :
        h \in {x \in [{0, 1} -> 1..MaxHorizon] : x[0] = MaxHorizon \/ x[1] = MaxHorizon},
        s \in {<<Ample, Ratio(1, 2)>>, <<Thin, One>>},
        sp \in {AutoSplit, FixedSplit(Ratio(1, 2))},
        rt \in {ZeroRates, GrowthRates}}

SourceKeys ==
    {"rmd", "ssec", "pension", "div", "job", "taxable", "dist", "tax-free",
     "RothX", "bti"}

IncomeKeys ==
    {"RothX", "gross", "taxes", "irmaa", "net", "target", "taxable", "tax-free"}

Init ==
    /\ plan \in Plans
    /\ success = TRUE
    /\ y2accounts = << >>
    /\ y2source = << >>
    /\ yincome = << >>
    /\ pc = "idle"
    /\ n = 0
    /\ who = 0
    /\ surviving = 0
    /\ wdrlRatio = One
    /\ depRatio = One
    /\ filingStatus = "single"
    /\ rawTarget = 0
    /\ btiEvent = 0
    /\ withdrawal = 0
    /\ kround = 0
    /\ estimatedTax = 0
    /\ gap = 0
    /\ xfer = [called |-> FALSE]
    /\ timeLists = [i \in Who |-> << >>]
    /\ last = NoCall
    /\ ncalls = [eval |-> 0, commit |-> 0]
    /\ runs = 0
    /\ prior = << >>
    /\ rmdCall = << >>
    /\ dr = << >>
    /\ load = << >>
    /\ ar = << >>

\* run(), up to the first pass of the loop over the years.  self.success is
\* not assigned here: it is set by reset() and cleared by a shortfall.
Begin ==
    /\ y2accounts' = [a \in AccountTypes |->
           [Zeros2(plan.maxHorizon, plan.count) EXCEPT ![0] = plan.n2balances[a]]]
    /\ y2source' = [key \in SourceKeys |-> Zeros2(plan.maxHorizon, plan.count)]
    /\ yincome' = [key \in IncomeKeys |-> Zeros1(plan.maxHorizon)]
    /\ filingStatus' = plan.status
    /\ rawTarget' = plan.target
    /\ surviving' = plan.count
    /\ wdrlRatio' = One
    /\ depRatio' = One
    /\ n' = 0
    /\ who' = 0
    /\ btiEvent' = 0
    /\ pc' = "indiv"
    /\ ncalls' = [eval |-> 0, commit |-> 0]
    /\ UNCHANGED <<plan, success, withdrawal, kround, estimatedTax, gap, xfer,
                   timeLists, last, rmdCall, dr, load, ar>>

\* The first call of run() on the instance.
RunStart ==
    /\ pc = "idle"
    /\ Begin
    /\ UNCHANGED <<runs, prior>>

AfterIndividual == IF who + 1 = plan.count THEN "reconcile" ELSE "indiv"

\* "if n > self.horizons[i]: continue"
SkipIndividual ==
    /\ pc = "indiv"
    /\ n > plan.horizons[who]
    /\ who' = who + 1
    /\ pc' = AfterIndividual
    /\ UNCHANGED <<aside, plan, success, y2accounts, y2source, yincome, n, surviving,
                   wdrlRatio, depRatio, filingStatus, rawTarget, btiEvent,
                   withdrawal, kround, estimatedTax, gap, xfer, timeLists, last,
                   ncalls>>

Add2(arr, year, i, v) == [arr EXCEPT ![year][i] = @ + v]

\* "ys2dist[n][:] += amounts['tax-def'][1:]"
AddList(arr, year, list) == [arr EXCEPT ![year] = [i \in DOMAIN @ |-> @[i] + list[i + 1]]]

\* A test that never reports a short big-ticket item.
BtiShortNever(total, bti) == FALSE

\* "if total != abs(bti)"
BtiShort(total, bti) == total # Abs(bti)

\* "ya2taxDef[n][i] -= tmp; ya2taxFree[n][i] += tmp", "if tmp > 0".
RothConverted(acc, i, conv) ==
    IF conv > 0
    THEN [acc EXCEPT !["tax-deferred"][n][i] = @ - conv,
                     !["tax-free"][n][i] = @ + conv]
    ELSE acc

\* The contributions of the year to the accounts of type a.
Ctrb(row, a) ==
    IF a = "taxable" THEN row["ctrb taxable"]
    ELSE IF a = "tax-deferred" THEN row["ctrb 401k"] + row["ctrb IRA"]
    ELSE row["ctrb Roth 401k"] + row["ctrb Roth IRA"]

\* "growth = (ya2...[n][i] + 0.5*ctrb) * _pfReturn(...)"
GrowthOf(acc, i, row, a) ==
    Growth(acc[a][n][i], Ctrb(row, a), PfReturn(AssetRatios(a), plan.rates, n, i))

\* "ya2...[n+1][i] += ya2...[n][i] + ctrb + growth"
Grown(acc, i, row, a) ==
    [acc EXCEPT ![a][n + 1][i] = @ + acc[a][n][i] + Ctrb(row, a) + GrowthOf(acc, i, row, a)]

\* "rmd = ya2taxDef[n+1][i] * tx.rmdFraction(self.yyear[n], self.yob[i])"
Rmd(acc, i) ==
    MulDiv(acc["tax-deferred"][n + 1][i], RmdFraction(Yyear(n), plan.yob[i]).num,
           RmdFraction(Yyear(n), plan.yob[i]).den)

\* "ya2taxDef[n+1][i] -= rmd"
RmdTaken(acc, i) == [acc EXCEPT !["tax-deferred"][n + 1][i] = @ - Rmd(acc, i)]

\* A conversion of the whole amount requested.
ConvAll(i, row) == row["Roth X"]

\* "tmp = min(reqRoth, ya2taxDef[n][i])"
Conv(i, row) == Min(row["Roth X"], y2accounts["tax-deferred"][n][i])

\* The accounts of individual i after the conversion, the contributions, the
\* growth and the RMD of year n.
YearGrown(i, row) ==
    With(RothConverted(y2accounts, i, Conv(i, row)), LAMBDA a0 :
    With(Grown(a0, i, row, "taxable"), LAMBDA a1 :
    With(Grown(a1, i, row, "tax-deferred"), LAMBDA a2 :
    With(RmdTaken(a2, i), LAMBDA a3 :
         Grown(a3, i, row, "tax-free")))))

\* The RMD of individual i in year n.
RmdOfYear(i, row) ==
    With(RothConverted(y2accounts, i, Conv(i, row)), LAMBDA a0 :
    With(Grown(a0, i, row, "tax-deferred"), LAMBDA a2 : Rmd(a2, i)))

\* "tmp = self.timeLists[i]['anticipated income'][n]", "if tmp > 0".
Income(row) == IF row["anticipated income"] > 0 THEN row["anticipated income"] ELSE 0

\* The per-individual sources of year n after the pass of individual i.
Sources(i, row, conv, growth, rmd) ==
    [y2source EXCEPT
        !["RothX"][n][i] = IF conv > 0 THEN conv ELSE @,
        !["job"][n][i] = @ + Income(row),
        !["div"][n][i] = Min(0, growth),
        !["rmd"][n][i] = rmd,
        !["pension"][n][i] = ComputePension(n, i),
        !["ssec"][n][i] = ComputeSS(n, i)]

\* The household income of year n after the pass of individual i.
Incomes(i, row, conv, growth, rmd, ssec) ==
    [yincome EXCEPT
        !["RothX"][n] = @ + (IF conv > 0 THEN conv ELSE 0),
        !["taxable"][n] = @ + Income(row) + Min(0, growth) + rmd
                            + ComputePension(n, i) + MulDiv(ssec, 85, 100),
        !["tax-free"][n] = @ + MulDiv(ssec, 15, 100)]

\* A split that puts the item on the other individual.
BtiSplitOther(i) == Ratio(i, 1)

\* "Take it from the account of bearer: use a split of (i+1)%2."
BtiSplit(i) == Ratio((i + 1) % 2, 1)

\* "if bti != 0": the big-ticket item bti of individual i, on the accounts
\* before, with b what _smartBanking returns.
BigTicket(i, bti, before, b, src1, inc1) ==
    /\ y2accounts' = AccountsAfter(b)
    /\ success' = IF BtiShort(b.total, bti) THEN FALSE ELSE success
    /\ btiEvent' = btiEvent + b.amounts.taxdef[0]
    /\ y2source' = [src1 EXCEPT
           !["dist"] = AddList(@, n, b.amounts.taxdef),
           !["tax-free"] = AddList(@, n, b.amounts.taxfree),
           !["taxable"] = AddList(@, n, b.amounts.taxable),
           !["bti"][n][i] = IF bti < 0 THEN -b.total ELSE b.total]
    /\ yincome' = inc1
    /\ last' = CallRecord(bti, n + 1, BtiSplit(i), TRUE, before, b)

\* The pass of individual i with the accounts before the big-ticket item.
Individual(i, row, before, src1, inc1) ==
    IF row["big ticket items"] = 0
    THEN /\ y2accounts' = before
         /\ y2source' = src1
         /\ yincome' = inc1
         /\ UNCHANGED <<success, btiEvent, last>>
    ELSE \E b \in {SmartBanking(row["big ticket items"], before["taxable"],
                                before["tax-deferred"], before["tax-free"], n + 1,
                                BtiSplit(i), plan.count, TRUE)} :
             BigTicket(i, row["big ticket items"], before, b, src1, inc1)

\* self.timeLists[i][...][nn]: the row read before, or else any row.
RowsOf(i, nn) ==
    IF nn \in DOMAIN timeLists[i] THEN {timeLists[i][nn]}
    ELSE {Quiet} \cup (IF EventsRead < MaxEvents THEN EventRows ELSE {})

\* One pass of the loop over the individuals, for individual who in year n,
\* with the row of the schedule for that year.
IndividualStep ==
    /\ pc = "indiv"
    /\ n <= plan.horizons[who]
    /\ \E row \in RowsOf(who, n) :
        /\ CheckTimeLists(who, n, row)
        /\ row["Roth X"] >= 0
        /\ timeLists' = [timeLists EXCEPT ![who] = (n :> row) @@ @]
        /\ \E conv \in {Conv(who, row)},
              growth \in {GrowthOf(y2accounts, who, row, "taxable")},
              rmd \in {RmdOfYear(who, row)},
              ssec \in {ComputeSS(n, who)},
              before \in {YearGrown(who, row)} :
               \E src1 \in {Sources(who, row, conv, growth, rmd)},
                  inc1 \in {Incomes(who, row, conv, growth, rmd, ssec)} :
                   Individual(who, row, before, src1, inc1)
    /\ who' = who + 1
    /\ pc' = AfterIndividual
    /\ UNCHANGED <<aside, plan, n, surviving, wdrlRatio, depRatio, filingStatus,
                   rawTarget, withdrawal, kround, estimatedTax, gap, xfer, ncalls>>

\* "np.max(self.y2ages[n][:])"
MaxAge(nn) ==
    IF plan.count = 1 THEN Y2ages(nn, 0) ELSE Max(Y2ages(nn, 0), Y2ages(nn, 1))

\* ytargetIncome[nn] for the base target raw.
TargetIncomeOf(raw, nn) ==
    InflationAdjusted(MulDiv(raw, SpendingAdjustment(MaxAge(nn), plan.profile), 1000),
                      nn, plan.rates, 0)

TargetIncome == TargetIncomeOf(rawTarget, n)

\* A gross income that leaves the big-ticket items out.
GrossWithoutBti == yincome["taxable"][n] + yincome["RothX"][n]

\* "gross = ytaxableIncome[n] + yRothX[n] + btiEvent"
Gross == yincome["taxable"][n] + yincome["RothX"][n] + btiEvent

Tax(income) == IncomeTax(income, YobSeq, filingStatus, Yyear(n), plan.rates)

\* "gap = netInc - ytargetIncome[n]"
Gap == yincome["tax-free"][n] + yincome["taxable"][n] - Tax(Gross) - TargetIncome

\* The income ratio of the year before (of year 0 in year 0).
IncomeRatioPrior ==
    LET p == Max(0, n - 1)
        Inc(i) == y2source["job"][p][i] + y2source["ssec"][p][i]
                  + y2source["pension"][p][i] + y2source["rmd"][p][i]
    IN  Ratio(Inc(0), Inc(0) + Inc(1) + 1)

\* "depRatio = (ys2job[n][0] + ...) / (sum(...) + 1)"
IncomeRatio ==
    LET Inc(i) == y2source["job"][n][i] + y2source["ssec"][n][i]
                  + y2source["pension"][n][i] + y2source["rmd"][n][i]
    IN  Ratio(Inc(0), Inc(0) + Inc(1) + 1)

\* The IRMAA of the deposit branch: one premium per living individual of 65
\* or more.
IrmaaOfHousehold(income) ==
    LET Due(i) == IF Y2ages(n, i) >= 65 /\ n <= plan.horizons[i]
                  THEN Irmaa(income, filingStatus, Yyear(n), plan.rates) ELSE 0
    IN  IF plan.count = 1 THEN Due(0) ELSE Due(0) + Due(1)

\* "_smartBanking(gap, ..., n+1, depRatio, self.names, True)" and the ledger of
\* the deposit branch, with r what the call returns.
Deposited(amount, ratio, r, target, gross, tax) ==
    /\ y2accounts' = AccountsAfter(r)
    /\ last' = CallRecord(amount, n + 1, ratio, TRUE, y2accounts, r)
    /\ ncalls' = [ncalls EXCEPT !.commit = @ + 1]
    /\ yincome' = [yincome EXCEPT
           !["target"][n] = target,
           !["taxes"][n] = tax,
           !["gross"][n] = gross,
           !["irmaa"][n] = @ + IrmaaOfHousehold(IF n = 0 THEN gross
                                                ELSE yincome["gross"][Max(0, n - 2)]),
           !["net"][n] = yincome["tax-free"][n] + yincome["taxable"][n] - tax]
    /\ pc' = "yearend"

Deposit(amount, ratio, target, gross, tax) ==
    /\ gap' = amount
    /\ estimatedTax' = tax
    /\ depRatio' = ratio
    /\ IF ValidRatio(ratio)
       THEN \E r \in {Bank(amount, n + 1, ratio, TRUE)} :
                Deposited(amount, ratio, r, target, gross, tax)
       ELSE /\ yincome' = [yincome EXCEPT !["target"][n] = target]
            /\ pc' = "raised"
            /\ UNCHANGED <<y2accounts, last, ncalls>>

\* "if gap >= 0": deposit the surplus.
ReconcileDeposit ==
    /\ pc = "reconcile"
    /\ AgeAsserted(MaxAge(n))
    /\ \E amount \in {Gap}, target \in {TargetIncome}, tax \in {Tax(Gross)},
          ratio \in {IF surviving = 2 THEN IncomeRatio ELSE depRatio} :
           /\ amount >= 0
           /\ Deposit(amount, ratio, target, Gross, tax)
    /\ UNCHANGED <<aside, plan, success, y2source, n, who, surviving, wdrlRatio,
                   filingStatus, rawTarget, btiEvent, withdrawal, kround, xfer,
                   timeLists>>

\* "else": the withdrawal is to be solved, starting from the gap.
ReconcileWithdraw ==
    /\ pc = "reconcile"
    /\ AgeAsserted(MaxAge(n))
    /\ \E amount \in {Gap} :
           /\ amount < 0
           /\ gap' = amount
           /\ withdrawal' = amount
           /\ wdrlRatio' = GetSplit(wdrlRatio, amount, n + 1, surviving)
    /\ estimatedTax' = Tax(Gross)
    /\ yincome' = [yincome EXCEPT !["target"][n] = TargetIncome]
    /\ kround' = 0
    /\ pc' = "solve"
    /\ UNCHANGED <<aside, plan, success, y2accounts, y2source, n, who, surviving,
                   depRatio, filingStatus, rawTarget, btiEvent, xfer, timeLists,
                   last, ncalls>>

\* "for k in range(32)"
SolverRounds == 32

\* A loop whose calls commit.
SolverCommits == TRUE

\* The commit argument of the calls of _smartBanking inside the loop.
SolverCommit == FALSE

\* "if abs(total - abs(withdrawal)) > 1"
RunningOut(total, amount) == Abs(total - Abs(amount)) > 1

\* A test that stops the loop within $1000 of the target.
ConvergedLoosely(delta) == delta >= -1000

\* "if delta >= -1"
Converged(delta) == delta >= -1

\* "netInc = txfree + txbl + ytaxfreeIncome[n] + ytaxableIncome[n] - estimatedTax"
NetInc(r, tax) ==
    r.amounts.taxable[0] + r.amounts.taxfree[0] + r.amounts.taxdef[0]
    + yincome["tax-free"][n] + yincome["taxable"][n] - tax

\* The rest of a pass of the loop, with r what _smartBanking returned and tax
\* the estimated tax.
Solved(r, tax) ==
    /\ y2accounts' = AccountsAfter(r)
    /\ last' = CallRecord(withdrawal, n + 1, wdrlRatio, SolverCommit, y2accounts, r)
    /\ ncalls' = IF SolverCommit
                 THEN [ncalls EXCEPT !.commit = @ + 1]
                 ELSE [ncalls EXCEPT !.eval = @ + 1]
    /\ estimatedTax' = tax
    /\ IF RunningOut(r.total, withdrawal)
       THEN /\ success' = FALSE
            /\ pc' = "commit"
            /\ UNCHANGED <<withdrawal, kround>>
       ELSE IF Converged(NetInc(r, tax) - yincome["target"][n])
       THEN /\ pc' = "commit"
            /\ UNCHANGED <<success, withdrawal, kround>>
       ELSE /\ withdrawal' = withdrawal + (NetInc(r, tax) - yincome["target"][n])
            /\ kround' = kround + 1
            /\ pc' = IF kround + 1 = SolverRounds THEN "fatal" ELSE "solve"
            /\ UNCHANGED success

\* "estimatedTax = tx.incomeTax(totaxblIncome, ...)"
Estimated(r) ==
    \E tax \in {Tax(yincome["RothX"][n] + yincome["taxable"][n] + btiEvent
                     + r.amounts.taxdef[0])} :
        Solved(r, tax)

\* One pass of the loop that solves the withdrawal; leaving the loop without
\* a break ends the process (u.xprint).
SolverRound ==
    /\ pc = "solve"
    /\ IF ~ValidRatio(wdrlRatio)
       THEN /\ pc' = "raised"
            /\ UNCHANGED <<success, y2accounts, withdrawal, kround, estimatedTax,
                           last, ncalls>>
       ELSE \E r \in {Bank(withdrawal, n + 1, wdrlRatio, SolverCommit)} :
                Estimated(r)
    /\ UNCHANGED <<aside, plan, y2source, yincome, n, who, surviving, wdrlRatio,
                   depRatio, filingStatus, rawTarget, btiEvent, gap, xfer,
                   timeLists>>

\* The ledger of year n after the withdrawal r, but for the IRMAA.
Paid(r) ==
    LET taxable == yincome["taxable"][n] + r.amounts.taxdef[0]
        taxfree == yincome["tax-free"][n] + r.amounts.taxable[0] + r.amounts.taxfree[0]
    IN  [yincome EXCEPT !["taxable"][n] = taxable,
                        !["tax-free"][n] = taxfree,
                        !["taxes"][n] = estimatedTax,
                        !["net"][n] = taxfree + taxable - estimatedTax,
                        !["gross"][n] = taxable + yincome["RothX"][n] + btiEvent]

\* "yirmaa[n] = tx.irmaa(irmaaIncome, filingStatus, self.yyear[n], self.rates)"
WithIrmaa(inc) ==
    [inc EXCEPT !["irmaa"][n] = Irmaa(inc["gross"][Max(0, n - 2)], filingStatus,
                                      Yyear(n), plan.rates)]

Committed(r) ==
    /\ y2accounts' = AccountsAfter(r)
    /\ last' = CallRecord(withdrawal, n + 1, wdrlRatio, TRUE, y2accounts, r)
    /\ ncalls' = [ncalls EXCEPT !.commit = @ + 1]
    /\ y2source' = [y2source EXCEPT
           !["dist"] = AddList(@, n, r.amounts.taxdef),
           !["tax-free"] = AddList(@, n, r.amounts.taxfree),
           !["taxable"] = AddList(@, n, r.amounts.taxable)]
    /\ yincome' = WithIrmaa(Paid(r))

\* "Now commit withdrawal and pay taxes."
CommitWithdrawal ==
    /\ pc = "commit"
    /\ \E r \in {Bank(withdrawal, n + 1, wdrlRatio, TRUE)} : Committed(r)
    /\ pc' = "yearend"
    /\ UNCHANGED <<aside, plan, success, n, who, surviving, wdrlRatio, depRatio,
                   filingStatus, rawTarget, btiEvent, withdrawal, kround,
                   estimatedTax, gap, xfer, timeLists>>

\* A split that favours the late spouse.
SurvivorSplitLate(j) == Ratio((j + 1) % 2, 1)

\* "wdrlRatio = j", "depRatio = j"
SurvivorSplit(j) == Ratio(j, 1)

\* A survivor who goes on filing jointly.
SurvivorStatusMarried == "married"

\* "filingStatus = 'single'"
SurvivorStatus == "single"

\* A target left as it was.
TargetKept(target) == target

\* "rawTarget *= self.survivorFraction"
ReducedTarget(target) == MulDiv(target, SurvivorFraction.num, SurvivorFraction.den)

\* "self._transferWealth(n+1, j)" and the lines after it.
Bereaved(st, j, after) ==
    [st EXCEPT
        !.surviving = @ - 1,
        !.accounts = after,
        !.xfer = [called |-> TRUE, late |-> j, year |-> n + 1,
                  before |-> st.accounts, after |-> after],
        !.wdrlRatio = SurvivorSplit(j),
        !.depRatio = SurvivorSplit(j),
        !.filingStatus = SurvivorStatus,
        !.rawTarget = ReducedTarget(@)]

\* One pass of "for j in range(self.count)" at the end of year n, on the
\* locals st of run().
Passing(st, j) ==
    IF st.returned \/ n # plan.horizons[j] THEN st
    ELSE IF st.surviving - 1 = 0
    THEN [st EXCEPT !.surviving = 0, !.returned = TRUE]
    ELSE Bereaved(st, j, TransferWealth(st.accounts, n + 1, j))

\* A loop over the years that never breaks.
AbortsNever == FALSE

\* "if not self.success: ... break"
Aborts == ~success

\* A loop over the years that ends after its first pass.
StopsAfterFirstYear(st) == FALSE

\* "for n in range(0, self.maxHorizon - 1)" goes on to year n + 1.
GoesOn(st) == ~st.returned /\ ~Aborts /\ n + 1 < plan.maxHorizon - 1

Settled(st) ==
    /\ surviving' = st.surviving
    /\ y2accounts' = st.accounts
    /\ xfer' = st.xfer
    /\ wdrlRatio' = st.wdrlRatio
    /\ depRatio' = st.depRatio
    /\ filingStatus' = st.filingStatus
    /\ rawTarget' = st.rawTarget
    /\ IF GoesOn(st)
       THEN /\ n' = n + 1
            /\ who' = 0
            /\ btiEvent' = 0
            /\ ncalls' = [eval |-> 0, commit |-> 0]
            /\ pc' = "indiv"
            /\ UNCHANGED runs
       ELSE /\ pc' = "done"
            /\ runs' = runs + 1
            /\ UNCHANGED <<n, who, btiEvent, ncalls>>

\* The locals of run() at the end of the year.
Locals ==
    [surviving |-> surviving, accounts |-> y2accounts, xfer |-> xfer,
     wdrlRatio |-> wdrlRatio, depRatio |-> depRatio,
     filingStatus |-> filingStatus, rawTarget |-> rawTarget, returned |-> FALSE]

\* The end of year n: who has passed, the transfer of wealth, and whether the
\* loop over the years goes on.
YearEnd ==
    /\ pc = "yearend"
    /\ \E st0 \in {Passing(Locals, 0)} :
           \E st \in {IF plan.count = 2 THEN Passing(st0, 1) ELSE st0} :
               Settled(st)
    /\ UNCHANGED <<plan, success, y2source, yincome, withdrawal, kround,
                   estimatedTax, gap, timeLists, last, prior, rmdCall, dr, load,
                   ar>>

Next ==
    \/ RunStart
    \/ SkipIndividual
    \/ IndividualStep
    \/ ReconcileDeposit
    \/ ReconcileWithdraw
    \/ SolverRound
    \/ CommitWithdrawal
    \/ YearEnd

Spec == Init /\ [][Next]_vars

\* Every step of run() is taken: the loops of run() have no suspension point.
SpecFair == Spec /\ WF_vars(Next)

-----------------------------------------------------------------------------
(* run() called again on the same instance, as the Roth optimizers do        *)
(* (optimizeRoth, _amountAnnealRoth, _sweepRoth: "p2.run()").                *)

MaxRuns == 2

\* What a call of run() has left on the instance when it returns.
Outcome ==
    [accounts |-> y2accounts, source |-> y2source, income |-> yincome,
     success |-> success]

\* "p2.run()" after a call of run() has returned, nothing set in between.
RunAgain ==
    /\ pc = "done"
    /\ runs < MaxRuns
    /\ prior' = Outcome
    /\ Begin
    /\ UNCHANGED runs

NextAgain == Next \/ RunAgain

SpecAgain == Init /\ [][NextAgain]_vars

-----------------------------------------------------------------------------
(* run() for households of other ages and means: a couple with a large       *)
(* tax-deferred account, an individual below 65, and individuals who are     *)
(* close to 100.                                                             *)

\* "assert (age <= 100)" fails in _spendingAdjustment: run() ends with an
\* AssertionError in year n, before the target of the year is recorded.
SpendingRaises ==
    /\ pc = "reconcile"
    /\ ~AgeAsserted(MaxAge(n))
    /\ pc' = "raised"
    /\ UNCHANGED <<aside, plan, success, y2accounts, y2source, yincome, n, who,
                   surviving, wdrlRatio, depRatio, filingStatus, rawTarget,
                   btiEvent, withdrawal, kround, estimatedTax, gap, xfer,
                   timeLists, last, ncalls>>

Wealthy ==
    [a \in AccountTypes |->
        IF a = "tax-deferred" THEN <<3000000, 0>> ELSE <<0, 0>>]

\* The plan p for the years of birth yob, the same horizons, social security
\* from the ages ssecAge, and the target income target.
Aged(p, yob, ssecAge, target) ==
    [p EXCEPT
        !.yob = yob,
        !.expectancy = [i \in DOMAIN yob |-> p.horizons[i] + ThisYear - yob[i]],
        !.ssecAge = ssecAge,
        !.target = target]

Households ==
    \* a couple of 74 and 65 with a large tax-deferred account
    {MakePlan(2, [i \in {0, 1} |-> 2], Wealthy, One, AutoSplit, ZeroRates),
     [MakePlan(2, [i \in {0, 1} |-> 2], Wealthy, One, AutoSplit, ZeroRates)
          EXCEPT !.target = 200000],
    \* an individual of 62
     Aged(MakePlan(1, [i \in {0} |-> 1], Wealthy, One, AutoSplit, ZeroRates),
          [i \in {0} |-> 1962], [i \in {0} |-> 72], 60000),
    \* an individual of 99 with a life expectancy of 100
     Aged(MakePlan(1, [i \in {0} |-> 1], Ample, One, AutoSplit, ZeroRates),
          [i \in {0} |-> 1925], [i \in {0} |-> 97], 60000),
    \* a couple of 99 and 97, both with a life expectancy of 100
     Aged(MakePlan(2, [i \in {0, 1} |-> IF i = 0 THEN 1 ELSE 3], Ample,
                   Ratio(1, 2), AutoSplit, ZeroRates),
          [i \in {0, 1} |-> IF i = 0 THEN 1925 ELSE 1927],
          [i \in {0, 1} |-> IF i = 0 THEN 97 ELSE 95], 60000)}

HouseholdInit ==
    /\ plan \in Households
    /\ success = TRUE
    /\ y2accounts = << >>
    /\ y2source = << >>
    /\ yincome = << >>
    /\ pc = "idle"
    /\ n = 0
    /\ who = 0
    /\ surviving = 0
    /\ wdrlRatio = One
    /\ depRatio = One
    /\ filingStatus = "single"
    /\ rawTarget = 0
    /\ btiEvent = 0
    /\ withdrawal = 0
    /\ kround = 0
    /\ estimatedTax = 0
    /\ gap = 0
    /\ xfer = [called |-> FALSE]
    /\ timeLists = [i \in Who |-> << >>]
    /\ last = NoCall
    /\ ncalls = [eval |-> 0, commit |-> 0]
    /\ runs = 0
    /\ prior = << >>
    /\ rmdCall = << >>
    /\ dr = << >>
    /\ load = << >>
    /\ ar = << >>

HouseholdNext == Next \/ SpendingRaises

SpecHouseholds == HouseholdInit /\ [][HouseholdNext]_vars

-----------------------------------------------------------------------------
(* rmdFraction called year after year for one individual, as the loop over   *)
(* the years of run() calls it: "tx.rmdFraction(self.yyear[n], self.yob[i])". *)

MaxRmdYears == 14

\* Years of birth, and the calendar years of the first call.
RmdYobs == 1945..1962

RmdFirstYears == 2020..2024

\* The variables of run(), at rest.
AtRest ==
    /\ y2accounts = << >>
    /\ y2source = << >>
    /\ yincome = << >>
    /\ timeLists = << >>
    /\ last = NoCall
    /\ ncalls = [eval |-> 0, commit |-> 0]
    /\ success = TRUE
    /\ n = 0
    /\ who = 0
    /\ surviving = 1
    /\ wdrlRatio = One
    /\ depRatio = One
    /\ filingStatus = "single"
    /\ rawTarget = 0
    /\ btiEvent = 0
    /\ withdrawal = 0
    /\ kround = 0
    /\ estimatedTax = 0
    /\ gap = 0
    /\ xfer = [called |-> FALSE]
    /\ runs = 0
    /\ prior = << >>

RmdInit ==
    /\ AtRest
    /\ plan = [count |-> 1]
    /\ pc = "rmd"
    /\ ar = << >>
    /\ dr = << >>
    /\ load = << >>
    /\ \E yob \in RmdYobs, year \in RmdFirstYears :
           rmdCall = [calls |-> 0, year |-> year, yob |-> yob,
                      fraction |-> Ratio(0, 1), positive |-> Ratio(0, 1)]

\* rmdFraction(year, yob) is called; positive keeps the latest positive
\* fraction returned before this call.
RmdCalled(year) ==
    /\ rmdCall.calls < MaxRmdYears
    /\ rmdCall' = [calls |-> rmdCall.calls + 1, year |-> year, yob |-> rmdCall.yob,
                   fraction |-> RmdFraction(year, rmdCall.yob),
                   positive |-> IF rmdCall.fraction.num > 0 THEN rmdCall.fraction
                                ELSE rmdCall.positive]
    /\ UNCHANGED <<plan, success, y2accounts, y2source, yincome, pc, n, who,
                   surviving, wdrlRatio, depRatio, filingStatus, rawTarget,
                   btiEvent, withdrawal, kround, estimatedTax, gap, xfer,
                   timeLists, last, ncalls, runs, prior, dr, load, ar>>

\* The call of year index 0.
RmdFirstYear == pc = "rmd" /\ rmdCall.calls = 0 /\ RmdCalled(rmdCall.year)

\* The call of the next year index.
RmdNextYear == pc = "rmd" /\ rmdCall.calls > 0 /\ RmdCalled(rmdCall.year + 1)

RmdNext == RmdFirstYear \/ RmdNextYear

SpecRmd == RmdInit /\ [][RmdNext]_vars

-----------------------------------------------------------------------------
(* The assets allocation ratios: boundsAR, y2assetRatios, coordinatedAR.    *)
(* A ratio is held in millionths, a balance in cents; a quotient drops its   *)
(* fractional part.  A vector is <<stocks, bonds, treasury bills, fixed>>.   *)

\* "1." as a ratio.
Micro == 1000000

\* "0.01" as a balance.
Cent == 1

MaxArHorizon == 3

MaxArSets == 2

MaxArYears == 2

ArUnit == 300

ArTypes == AccountTypes \cup {"coordinated"}

Zero4 == <<0, 0, 0, 0>>

Sum4(v) == v[1] + v[2] + v[3] + v[4]

\* The vectors given to the setters, in percent.
ArPercents == {<<0, 25, 50, 25>>, <<60, 40, 0, 0>>}

\* "assert abs(sum(taxable[i]) - 100) < 0.01" and "np.array(taxable)/100"
Hundredth(v) == [j \in 1..4 |-> v[j] * (Micro \div 100)]

\* _setAR(taxable, taxDeferred, taxFree, k), every individual given the same
\* three vectors.
SetAR(r, taxable, taxDeferred, taxFree, k) ==
    [r EXCEPT
        !.boundsAR["taxable"][k] = [i \in Who |-> Hundredth(taxable)],
        !.boundsAR["tax-deferred"][k] = [i \in Who |-> Hundredth(taxDeferred)],
        !.boundsAR["tax-free"][k] = [i \in Who |-> Hundredth(taxFree)],
        !.coordinatedAR = "none"]

\* _linInterp(accType, count, upperN): "np.linspace(a, b, upperN[who]+2)"
\* written to the rows 0..upperN[who]+1 of the first count individuals.
LinInterp(r, accType, cnt, upperN) ==
    [r EXCEPT !.y2assetRatios[accType] =
        [y \in DOMAIN @ |-> [i \in DOMAIN @[y] |->
            IF i < cnt /\ y < upperN[i] + 2
            THEN [j \in 1..4 |->
                     r.boundsAR[accType][0][i][j]
                     + MulDiv(y, r.boundsAR[accType][1][i][j]
                                 - r.boundsAR[accType][0][i][j], upperN[i] + 1)]
            ELSE @[y][i]]]]

\* interpolateAR(method): 'linear' interpolates; 's-curve' passes the check
\* of the method and matches no branch ("elif method == 'tanh'").
InterpolatedAR(r, method) ==
    IF method # "linear" THEN r
    ELSE IF r.coordinatedAR = "both"
    THEN LinInterp(r, "coordinated", 1, [i \in {0} |-> plan.maxHorizon - 2])
    ELSE IF r.coordinatedAR = "individual"
    THEN LinInterp(r, "coordinated", plan.count, plan.horizons)
    ELSE LinInterp(LinInterp(LinInterp(r, "taxable", plan.count, plan.horizons),
                             "tax-deferred", plan.count, plan.horizons),
                   "tax-free", plan.count, plan.horizons)

\* _balance(c, X, Y, Z): <<x, y, z>>
Balance(c, X, Y, Z) ==
    LET T == X + Y + Z
        z0 == Min((c[1] * T) \div (Z + Cent), Micro)
        y0 == Min((c[1] * T - z0 * Z) \div (Y + Cent), Micro)
        x0 == (c[1] * T - y0 * Y - z0 * Z) \div (X + Cent)
        z1 == Min((c[2] * T) \div (Z + Cent), Micro - z0)
        y1 == Min((c[2] * T - z1 * Z) \div (Y + Cent), Micro - y0)
        x1 == Min((c[2] * T - y1 * Y - z1 * Z) \div (X + Cent), Micro - x0)
        x3 == Min((c[4] * T) \div (X + Cent), Micro - x0 - x1)
        y3 == Min((c[4] * T - x3 * X) \div (Y + Cent), Micro - y0 - y1)
        z3 == Min((c[4] * T - x3 * X - y3 * Y) \div (Z + Cent), Micro - z0 - z1)
    IN  IF T < Cent THEN <<Zero4, Zero4, Zero4>>
        ELSE <<  <<x0, x1, IF X > Cent THEN Micro - (x0 + x1 + x3) ELSE 0, x3>>,
                 <<y0, y1, IF Y > Cent THEN Micro - (y0 + y1 + y3) ELSE 0, y3>>,
                 <<z0, z1, IF Z > Cent THEN Micro - (z0 + z1 + z3) ELSE 0, z3>>  >>

\* The rows of year nn of the individuals in whom, set to <<x, y, z>>.
Rebalanced(r, nn, whom, xyz) ==
    [r EXCEPT
        !.y2assetRatios["taxable"][nn] =
            [i \in DOMAIN @ |-> IF i \in whom THEN xyz[1] ELSE @[i]],
        !.y2assetRatios["tax-deferred"][nn] =
            [i \in DOMAIN @ |-> IF i \in whom THEN xyz[2] ELSE @[i]],
        !.y2assetRatios["tax-free"][nn] =
            [i \in DOMAIN @ |-> IF i \in whom THEN xyz[3] ELSE @[i]]]

\* _balanceAR(n), 'individual': "for who in range(self.count)", from i on.
RECURSIVE BalanceEach(_, _, _, _)
BalanceEach(r, acc, nn, i) ==
    IF i >= plan.count THEN r
    ELSE IF nn > plan.horizons[i] THEN BalanceEach(r, acc, nn, i + 1)
    ELSE BalanceEach(
             Rebalanced(r, nn, {i},
                        Balance(r.y2assetRatios["coordinated"][nn][i],
                                acc["taxable"][nn][i], acc["tax-deferred"][nn][i],
                                acc["tax-free"][nn][i])),
             acc, nn, i + 1)

\* _balanceAR(n) on the balances acc.
BalancedAR(r, acc, nn) ==
    IF r.coordinatedAR = "none" THEN r
    ELSE IF r.coordinatedAR = "individual" THEN BalanceEach(r, acc, nn, 0)
    ELSE Rebalanced(r, nn, Who,
                    Balance(r.y2assetRatios["coordinated"][nn][0],
                            SumOver(acc["taxable"], nn),
                            SumOver(acc["tax-deferred"], nn),
                            SumOver(acc["tax-free"], nn)))

\* The households whose ratios are followed.
ArPlans ==
    {[count |-> 1, horizons |-> [i \in {0} |-> h], maxHorizon |-> h + 2] :
        h \in {1, MaxArHorizon}}
    \cup
    {[count |-> 2, horizons |-> h, maxHorizon |-> Max(h[0], h[1]) + 2] :
        h \in [{0, 1} -> {1, MaxArHorizon}]}

\* The balances one individual may hold at the start of a year.
ArBalances ==
    {[a \in AccountTypes |-> 0],
     [a \in AccountTypes |-> ArUnit],
     [a \in AccountTypes |-> IF a = "tax-deferred" THEN ArUnit ELSE 0]}

\* "np.zeros((self.maxHorizon, self.count, 4))", "np.zeros((2, self.count, 4))"
BlankAR ==
    [coordinatedAR |-> "none",
     boundsAR |-> [a \in ArTypes |-> [k \in {0, 1} |-> [i \in Who |-> Zero4]]],
     y2assetRatios |-> [a \in ArTypes |->
         [y \in 0..(plan.maxHorizon - 1) |-> [i \in Who |-> Zero4]]],
     sets |-> 0,
     fresh |-> TRUE]

\* Plan.__init__: the default bounds, interpolated.
DefaultAR ==
    InterpolatedAR(
        SetAR(SetAR(BlankAR, <<0, 25, 50, 25>>, <<60, 40, 0, 0>>, <<60, 40, 0, 0>>, 0),
              <<0, 25, 50, 25>>, <<60, 40, 0, 0>>, <<60, 40, 0, 0>>, 1),
        "linear")

ArInit ==
    /\ plan \in ArPlans
    /\ y2accounts = [a \in AccountTypes |-> Zeros2(plan.maxHorizon, plan.count)]
    /\ y2source = << >>
    /\ yincome = << >>
    /\ timeLists = << >>
    /\ last = NoCall
    /\ ncalls = [eval |-> 0, commit |-> 0]
    /\ success = TRUE
    /\ n = 0
    /\ who = 0
    /\ surviving = plan.count
    /\ wdrlRatio = One
    /\ depRatio = One
    /\ filingStatus = "single"
    /\ rawTarget = 0
    /\ btiEvent = 0
    /\ withdrawal = 0
    /\ kround = 0
    /\ estimatedTax = 0
    /\ gap = 0
    /\ xfer = [called |-> FALSE]
    /\ runs = 0
    /\ prior = << >>
    /\ rmdCall = << >>
    /\ dr = << >>
    /\ load = << >>
    /\ pc = "ar"
    /\ ar = DefaultAR

\* What the steps on the ratios leave alone.
arFrame == <<plan, success, y2source, yincome, pc, who, surviving, wdrlRatio,
             depRatio, filingStatus, rawTarget, btiEvent, withdrawal, kround,
             estimatedTax, gap, xfer, timeLists, last, ncalls, runs, prior,
             rmdCall, dr, load>>

\* A setter is called before run().
ArSetter == pc = "ar" /\ n = 0 /\ ar.sets < MaxArSets

\* setInitialAR(taxable, taxDeferred, taxFree)
SetInitialAR ==
    /\ ArSetter
    /\ \E v \in ArPercents :
           ar' = [SetAR(ar, v, v, v, 0) EXCEPT !.sets = @ + 1, !.fresh = FALSE]
    /\ UNCHANGED <<arFrame, n, y2accounts>>

\* setFinalAR(taxable, taxDeferred, taxFree)
SetFinalAR ==
    /\ ArSetter
    /\ \E v \in ArPercents :
           ar' = [SetAR(ar, v, v, v, 1) EXCEPT !.sets = @ + 1, !.fresh = FALSE]
    /\ UNCHANGED <<arFrame, n, y2accounts>>

\* setCoordinatedAR(initial, final): one vector per individual ('individual')
\* or one vector for the household ('both').
SetCoordinatedAR ==
    /\ ArSetter
    /\ \E scope \in {"individual", "both"}, initial \in ArPercents, final \in ArPercents :
           ar' = [ar EXCEPT
                     !.boundsAR["coordinated"][0] = [i \in Who |-> Hundredth(initial)],
                     !.boundsAR["coordinated"][1] = [i \in Who |-> Hundredth(final)],
                     !.coordinatedAR = scope,
                     !.sets = @ + 1,
                     !.fresh = FALSE]
    /\ UNCHANGED <<arFrame, n, y2accounts>>

\* interpolateAR(method)
InterpolateAR ==
    /\ pc = "ar" /\ n = 0 /\ ~ar.fresh
    /\ \E method \in {"linear", "s-curve"} :
           ar' = [InterpolatedAR(ar, method) EXCEPT !.fresh = TRUE]
    /\ UNCHANGED <<arFrame, n, y2accounts>>

\* "self._balanceAR(n)" at the start of year n of run(), on the balances that
\* run() holds for year n.
BalanceAR ==
    /\ pc = "ar"
    /\ n < plan.maxHorizon - 1
    /\ n < MaxArYears
    /\ \E bal \in [Who -> ArBalances] :
           \E acc \in {[a \in AccountTypes |->
                           [y2accounts[a] EXCEPT ![n] = [i \in Who |-> bal[i][a]]]]} :
               /\ y2accounts' = acc
               /\ ar' = BalancedAR(ar, acc, n)
    /\ n' = n + 1
    /\ UNCHANGED arFrame

ArNext ==
    \/ SetInitialAR
    \/ SetFinalAR
    \/ SetCoordinatedAR
    \/ InterpolateAR
    \/ BalanceAR

SpecAR == ArInit /\ [][ArNext]_vars

-----------------------------------------------------------------------------
(* Plan.setRates and the class rates of src/rates.py.  A row of rates is     *)
(* named by where it comes from: the table row of a year, the fixed values,  *)
(* or a draw.                                                                *)

FROM == 1928

TO == 2023

MaxSeries == 5

MaxRateCalls == 2

\* "len(SP500)"
TableLen == TO - FROM + 1

\* A window that admits every year.
InWindowAlways(year) == TRUE

\* "assert FROM <= frm and frm <= TO"
InWindow(year) == FROM <= year /\ year <= TO

\* Python's k % span for span # 0.
PyMod(k, span) == IF span > 0 THEN k % span ELSE -((-k) % (-span))

\* _histRates(n): [SP500[n], BondsBaa[n], TNotes[n], Inflation[n]] / 100
HistRates(nn) == [from |-> "table", year |-> FROM + nn]

\* The rates object dr after setMethod, or failed: an assertion or u.xprint.
SetMethod(method, frm, to, values) ==
    LET failed == [failed |-> TRUE, rateMethod |-> "none", myRates |-> << >>]
        fixed(v) == [failed |-> FALSE, rateMethod |-> "fixed", myRates |-> v]
    IN  IF method \in {"default", "realistic", "conservative"}
        THEN fixed([from |-> method])
        ELSE IF method = "fixed"
        THEN IF values = << >> THEN failed ELSE fixed([from |-> "values", values |-> values])
        ELSE IF ~(InWindow(frm) /\ InWindow(to) /\ frm < to) THEN failed
        ELSE IF method = "historical"
        THEN [failed |-> FALSE, rateMethod |-> "hist", myRates |-> [from |-> "default"]]
        ELSE IF method = "average"
        THEN fixed([from |-> "means", frm |-> frm, to |-> to])
        ELSE IF method = "stochastic"
        THEN [failed |-> FALSE, rateMethod |-> "stoch", myRates |-> [from |-> "default"]]
        ELSE failed

\* getRates(n) may be called: "assert 0 <= n and n < len(SP500)"
GetRatesValid(nn) == 0 <= nn /\ nn < TableLen

\* getRates(n) of the rates object d
GetRates(d, nn) ==
    IF d.rateMethod = "hist" THEN HistRates(nn)
    ELSE IF d.rateMethod = "stoch" THEN [from |-> "draw"]
    ELSE d.myRates

\* An index that runs on past the range.
GenIndexNoWrap(first, k, span) == first + k

\* "first + (k % span)"
GenIndex(first, k, span) == first + PyMod(k, span)

\* genSeries(frm, to, n) runs through: no division by zero, no failed assert.
GenSeriesValid(frm, to, len) ==
    /\ to - frm + 1 # 0
    /\ \A k \in 0..(len - 1) : GetRatesValid(GenIndex(frm - FROM, k, to - frm + 1))

\* genSeries(frm, to, n)
GenSeries(d, frm, to, len) ==
    [k \in 0..(len - 1) |-> GetRates(d, GenIndex(frm - FROM, k, to - frm + 1))]

\* The arguments tried.
RateMethods ==
    {"default", "realistic", "conservative", "fixed", "historical", "average",
     "stochastic", "optimistic"}

RateYears == {FROM - 1, FROM, FROM + 1, FROM + 2, TO - 1, TO, TO + 1}

\* "values=None" is the empty tuple.
RateValues == {<< >>, <<8, 5, 4, 3>>}

\* Plan.reset: "self.setRates('default')"
RatesInit ==
    /\ AtRest
    /\ pc = "rates"
    /\ rmdCall = << >>
    /\ ar = << >>
    /\ load = << >>
    /\ dr = [calls |-> 0, method |-> "default", frm |-> FROM, to |-> TO,
             values |-> << >>, failed |-> FALSE, rateMethod |-> "fixed",
             myRates |-> [from |-> "default"], raised |-> FALSE]
    /\ \E len \in 2..MaxSeries :
           plan = [count |-> 1, maxHorizon |-> len, rateMethod |-> "default",
                   rateFrm |-> FROM, rateTo |-> TO, rateValues |-> << >>,
                   rates |-> [k \in 0..(len - 1) |-> [from |-> "default"]]]

\* Plan.setRates(method, frm, to, values): dr.setMethod, the four attributes,
\* dr.genSeries; an exception leaves what follows it undone.
SetRates(method, frm, to, values) ==
    /\ pc = "rates"
    /\ dr.calls < MaxRateCalls
    /\ \E d \in {SetMethod(method, frm, to, values)} :
        \E through \in {~d.failed /\ GenSeriesValid(frm, to, plan.maxHorizon)} :
           /\ dr' = [calls |-> dr.calls + 1, method |-> method, frm |-> frm, to |-> to,
                     values |-> values, failed |-> d.failed,
                     rateMethod |-> d.rateMethod, myRates |-> d.myRates,
                     raised |-> ~through]
           /\ plan' = IF d.failed THEN plan
                      ELSE [plan EXCEPT
                               !.rateMethod = method, !.rateFrm = frm,
                               !.rateTo = to, !.rateValues = values,
                               !.rates = IF through
                                         THEN GenSeries(d, frm, to, plan.maxHorizon)
                                         ELSE @]
    /\ UNCHANGED <<success, y2accounts, y2source, yincome, pc, n, who, surviving,
                   wdrlRatio, depRatio, filingStatus, rawTarget, btiEvent,
                   withdrawal, kround, estimatedTax, gap, xfer, timeLists, last,
                   ncalls, runs, prior, rmdCall, load, ar>>

\* setRates with one of the range-based methods.
SetRatesRange ==
    \E method \in {"historical", "average", "stochastic"}, frm \in RateYears,
       to \in RateYears, values \in RateValues : SetRates(method, frm, to, values)

\* setRates with another method.
SetRatesOther ==
    \E method \in RateMethods \ {"historical", "average", "stochastic"},
       frm \in {FROM, FROM - 1}, to \in {TO}, values \in RateValues :
           SetRates(method, frm, to, values)

RatesNext == SetRatesRange \/ SetRatesOther

SpecRates == RatesInit /\ [][RatesNext]_vars

-----------------------------------------------------------------------------
(* Properties of the allocator (specification SpecBank).                    *)

Individuals == 0..(plan.count - 1)

PreBal(a, i) == last.pre[a][last.year][i]

Bal(a, i) == y2accounts[a][last.year][i]

\* The call put the whole amount on one individual: ratio 1 (individual 0) or,
\* with two individuals, ratio 0 (individual 1).
WholeOn(i) ==
    /\ last.called
    /\ \/ i = 0 /\ last.ratio.num = last.ratio.den
       \/ i = 1 /\ plan.count = 2 /\ last.ratio.num = 0

Drawn(i) ==
    <<last.amounts.taxable[i + 1], last.amounts.taxdef[i + 1],
      last.amounts.taxfree[i + 1]>>

\* C1: a withdrawal w put on one individual drains taxable first, then
\* tax-deferred, then tax-free, each capped at its balance; in particular for
\* taxable < w < taxable + tax-deferred it takes the whole taxable balance,
\* w - taxable from tax-deferred, nothing from tax-free, and moves w in total.
C1_WaterfallOrder ==
    \A i \in Individuals :
        (WholeOn(i) /\ last.amount < 0) =>
            LET w == -last.amount
                t == PreBal("taxable", i)
                d == PreBal("tax-deferred", i)
                f == PreBal("tax-free", i)
                fromT == Min(w, t)
                fromD == Min(w - fromT, d)
                fromF == Min(w - fromT - fromD, f)
            IN  /\ Drawn(i) = <<fromT, fromD, fromF>>
                /\ last.total = fromT + fromD + fromF
                /\ (w > t /\ w < t + d) =>
                       /\ Drawn(i) = <<t, w - t, 0>>
                       /\ last.total = w
                /\ last.commit =>
                       /\ Bal("taxable", i) = t - fromT
                       /\ Bal("tax-deferred", i) = d - fromD
                       /\ Bal("tax-free", i) = f - fromF

C1_Witness ==
    \E i \in Individuals :
        /\ WholeOn(i) /\ last.amount < 0 /\ last.commit
        /\ PreBal("taxable", i) > 0
        /\ -last.amount > PreBal("taxable", i)
        /\ -last.amount < PreBal("taxable", i) + PreBal("tax-deferred", i)
        /\ PreBal("tax-free", i) > 0

C4_NoCommitPure ==
    /\ (last.called /\ ~last.commit) => y2accounts = last.pre
    /\ last.repeat => last.agree

C4_Witness ==
    /\ last.repeat /\ last.amount < 0 /\ last.total > 0
    /\ \E i \in Individuals : last.amounts.taxdef[i + 1] > 0

ItemizedSum ==
    LET S(i) == Drawn(i)[1] + Drawn(i)[2] + Drawn(i)[3]
    IN  S(0) + S(1)

\* C5 as stated: with two individuals the itemized amounts of both individuals
\* over the three buckets add up to totalMoved, for deposits and withdrawals.
C5_SplitConservationAnyAmount ==
    (last.called /\ plan.count = 2) => ItemizedSum = last.total

\* C5: with two individuals the itemized amounts add up to totalMoved
\* for every withdrawal (amount <= 0), fully funded or short; for a deposit
\* every itemized amount is 0 and totalMoved is the amount deposited.
C5_SplitConservation ==
    (last.called /\ plan.count = 2) =>
        /\ last.amount <= 0 => ItemizedSum = last.total
        /\ last.amount > 0 => (ItemizedSum = 0 /\ last.total = last.amount)

C5_Witness ==
    /\ last.called /\ plan.count = 2 /\ last.amount < 0
    /\ last.ratio.num > 0 /\ last.ratio.num < last.ratio.den
    /\ last.total < -last.amount
    /\ Drawn(0)[1] + Drawn(0)[2] + Drawn(0)[3] > 0
    /\ Drawn(1)[1] + Drawn(1)[2] + Drawn(1)[3] > 0

\* C6 as stated: with one individual the result and the balances after a call
\* are those of the same call with ratio 1.
C6_RatioIgnored ==
    (last.called /\ plan.count = 1) =>
        LET r == SmartBanking(last.amount, last.pre["taxable"],
                              last.pre["tax-deferred"], last.pre["tax-free"],
                              last.year, One, 1, last.commit)
        IN  /\ last.amounts = r.amounts
            /\ last.total = r.total
            /\ y2accounts = AccountsAfter(r)

\* C6: with one individual the allocator applies ratio*amount, not the
\* whole amount: a committed deposit adds ratio*amount to the taxable balance,
\* a withdrawal moves min(ratio*|amount|, sum of the three balances).
C6_SingleGetsShare ==
    (last.called /\ plan.count = 1) =>
        LET t == PreBal("taxable", 0)
            d == PreBal("tax-deferred", 0)
            f == PreBal("tax-free", 0)
        IN  /\ (last.amount > 0) =>
                   /\ last.ratio.den * last.total = last.ratio.num * last.amount
                   /\ last.commit =>
                          last.ratio.den * (Bal("taxable", 0) - t) =
                              last.ratio.num * last.amount
            /\ (last.amount < 0) =>
                   last.ratio.den * last.total =
                       Min(last.ratio.num * (-last.amount),
                           last.ratio.den * (t + d + f))

C6_Witness ==
    /\ last.called /\ plan.count = 1 /\ last.commit
    /\ last.ratio.num > 0 /\ last.ratio.num < last.ratio.den
    /\ last.amount < 0
    /\ last.total > 0
    /\ last.total < -last.amount
    /\ last.total < PreBal("taxable", 0) + PreBal("tax-deferred", 0)
                        + PreBal("tax-free", 0)

-----------------------------------------------------------------------------
(* Properties of run().                                                      *)

Started == pc \notin {"idle", "bank"}

\* The last year index run() can simulate: the longest horizon.
LastHorizon == plan.maxHorizon - 2

\* C2: the balances never go negative: in every state of run(), every bucket
\* of every individual at every year index is >= 0.
C2_BalancesNonNegative ==
    Started =>
        \A a \in AccountTypes : \A y \in DOMAIN y2accounts[a] : \A i \in Who :
            y2accounts[a][y][i] >= 0

\* C7: a wealth transfer adds to each bucket of the survivor the beneficiary
\* fraction f of the decedent's balance (to the dollar), empties the decedent's
\* bucket and touches nothing else; the household loses (1 - f) of that
\* balance per bucket, and nothing when f = 1.
C7_TransferConservation ==
    xfer.called =>
        LET late == xfer.late
            other == (late + 1) % 2
            f == plan.beneficiary[late]
            y == xfer.year
            Before(a, i) == xfer.before[a][y][i]
            After(a, i) == xfer.after[a][y][i]
        IN  \A a \in AccountTypes :
                /\ After(a, late) = 0
                /\ Abs(f.den * (After(a, other) - Before(a, other))
                       - f.num * Before(a, late)) < f.den
                /\ Abs(f.den * ((Before(a, 0) + Before(a, 1)) - (After(a, 0) + After(a, 1)))
                       - (f.den - f.num) * Before(a, late)) < f.den
                /\ f.num = f.den =>
                       After(a, 0) + After(a, 1) = Before(a, 0) + Before(a, 1)
                /\ \A z \in DOMAIN xfer.after[a] :
                       z # y => xfer.after[a][z] = xfer.before[a][z]

C7_Witness ==
    /\ xfer.called
    /\ plan.beneficiary[xfer.late] = Ratio(1, 2)
    /\ \E a \in AccountTypes :
           /\ xfer.before[a][xfer.year][xfer.late] > 0
           /\ xfer.before[a][xfer.year][(xfer.late + 1) % 2] > 0
           /\ xfer.after[a][xfer.year][(xfer.late + 1) % 2]
                  > xfer.before[a][xfer.year][(xfer.late + 1) % 2]

\* Year y has been reconciled: its income target is in the ledger.
Reconciled(y) == yincome["target"][y] > 0

\* C8 as stated: when run() returns with the success flag cleared, it has
\* simulated every year up to the last horizon.
C8_SimulatesFullHorizon ==
    (pc = "done" /\ ~success) => (n = LastHorizon /\ \A y \in 0..LastHorizon : Reconciled(y))

\* C8: a cleared success flag ends the simulation at the end of the year that
\* cleared it: run() returns early only with the flag cleared, the year index
\* never advances once the flag is cleared, the failing year is completed and
\* no later year is in the ledger.
C8_StopsAfterFailingYear ==
    /\ [](pc = "done" => (n = LastHorizon \/ ~success))
    /\ []((pc = "done" /\ ~success) =>
            /\ Reconciled(n)
            /\ \A y \in (n + 1)..(plan.maxHorizon - 1) :
                   /\ ~Reconciled(y)
                   /\ yincome["net"][y] = 0
                   /\ \A i \in Who : y \notin DOMAIN timeLists[i])
    /\ [][(Started /\ ~success) => n' = n]_vars

C8_Witness ==
    /\ pc = "done"
    /\ ~success
    /\ n < LastHorizon
    /\ surviving > 0
    /\ Reconciled(n)

\* A requested Roth conversion exceeded the tax-deferred balance.
RothShort ==
    \E i \in Who : \E y \in DOMAIN timeLists[i] :
        timeLists[i][y]["Roth X"] > y2source["RothX"][y][i]

\* A big-ticket item moved less than requested.
BtiShortSeen ==
    \E i \in Who : \E y \in DOMAIN timeLists[i] :
        Abs(y2source["bti"][y][i]) # Abs(timeLists[i][y]["big ticket items"])

\* The withdrawal committed for year n is short by more than $1.
WithdrawalShort ==
    /\ last.called /\ last.commit /\ last.year = n + 1 /\ gap < 0
    /\ last.amount = withdrawal
    /\ Abs(last.total - Abs(last.amount)) > 1

\* C9 as stated: any of the three shortfalls leaves success false when run()
\* returns.
C9_EveryShortfallClears ==
    (pc = "done" /\ (RothShort \/ BtiShortSeen \/ WithdrawalShort)) => ~success

\* C9: when run() returns, success is false exactly when a big-ticket item
\* moved less than requested or the committed withdrawal is short by more than
\* $1; a Roth conversion cut to the tax-deferred balance leaves the flag alone.
C9_FundingShortfallsClear ==
    pc = "done" => (~success <=> (BtiShortSeen \/ WithdrawalShort))

C9_Witness ==
    /\ pc = "done"
    /\ BtiShortSeen
    /\ ~WithdrawalShort
    /\ ~success

SolverConverged ==
    /\ pc \in {"yearend", "done"}
    /\ gap < 0
    /\ last.called /\ last.commit /\ last.amount = withdrawal
    /\ ~RunningOut(last.total, last.amount)

\* The committing call moves what the evaluation before it returned.
CommitMovesEvaluated ==
    /\ last'.commit
    /\ last'.amount = last.amount
    /\ last'.amounts = last.amounts
    /\ last'.total = last.total
    /\ \A i \in Who :
           /\ y2accounts'["taxable"][n + 1][i] =
                  y2accounts["taxable"][n + 1][i] - last.amounts.taxable[i + 1]
           /\ y2accounts'["tax-deferred"][n + 1][i] =
                  y2accounts["tax-deferred"][n + 1][i] - last.amounts.taxdef[i + 1]
           /\ y2accounts'["tax-free"][n + 1][i] =
                  y2accounts["tax-free"][n + 1][i] - last.amounts.taxfree[i + 1]

\* C11: in a year with net < target whose withdrawal was solved by convergence,
\* the committing call moves exactly the amounts of the last non-committing
\* evaluation, and the net income recorded for the year (tax-free + taxable -
\* tax) is within $1 of the year's target, in either direction.
C11_SolverPostcondition ==
    /\ [](SolverConverged =>
            /\ yincome["net"][n] =
                   yincome["tax-free"][n] + yincome["taxable"][n] - yincome["taxes"][n]
            /\ Abs(yincome["net"][n] - yincome["target"][n]) <= 1)
    /\ [][(pc = "commit" /\ pc' = "yearend") =>
              (~last.commit /\ CommitMovesEvaluated)]_vars

C11_Witness ==
    /\ SolverConverged
    /\ pc = "yearend"
    /\ kround >= 2
    /\ last.amounts.taxdef[0] > 0
    /\ last.amounts.taxable[0] > 0
    /\ yincome["taxes"][n] > 0
    /\ yincome["net"][n] < yincome["target"][n]

\* Nothing is in the ledger at year index y.
LedgerEmpty(y) ==
    /\ \A key \in IncomeKeys : yincome[key][y] = 0
    /\ \A key \in SourceKeys : \A i \in Who : y2source[key][y][i] = 0

\* A run of a single individual has returned with no funding shortfall.
SingleReturned == pc = "done" /\ plan.count = 1 /\ success

\* C12 as stated: a run of one individual with no shortfall simulates
\* horizon + 2 = maxHorizon years, the ledger filled for each of them.
C12_SimulatesMaxHorizonYears ==
    SingleReturned =>
        /\ n + 1 = plan.maxHorizon
        /\ \A y \in 0..(plan.maxHorizon - 1) : Reconciled(y)

\* C12: a run of one individual returns; with no shortfall it has simulated
\* the years 0..horizon, that is horizon + 1 = maxHorizon - 1 years: the
\* ledger is filled for each of them and empty at the last index horizon + 1
\* of the tables; only the balances have an entry there.
C12_SingleTerminates ==
    /\ (plan.count = 1 /\ pc = "idle") ~> (pc = "done" /\ runs = 1)
    /\ [](SingleReturned =>
            /\ n = plan.horizons[0]
            /\ n + 1 = plan.maxHorizon - 1
            /\ \A y \in 0..n : Reconciled(y) /\ y \in DOMAIN timeLists[0]
            /\ DOMAIN timeLists[0] = 0..n
            /\ LedgerEmpty(plan.maxHorizon - 1)
            /\ last.called /\ last.commit /\ last.year = plan.maxHorizon - 1)

C12_Witness ==
    /\ SingleReturned
    /\ n = plan.horizons[0]
    /\ n = MaxHorizon
    /\ LedgerEmpty(n + 1)
    /\ Reconciled(n)
    /\ y2accounts["tax-deferred"][n + 1][0] > 0

-----------------------------------------------------------------------------
(* Properties of the big-ticket items and of the first death                *)
(* (specification Spec).                                                     *)

\* The pass of individual i in year n has just applied a big-ticket item.
BtiJustApplied(i) ==
    /\ pc \in {"indiv", "reconcile"}
    /\ who = i + 1
    /\ n \in DOMAIN timeLists[i]
    /\ timeLists[i][n]["big ticket items"] # 0

\* What the latest allocator call took out of the accounts of individual j.
TakenFrom(j) ==
    (last.pre["taxable"][n + 1][j] - y2accounts["taxable"][n + 1][j])
    + (last.pre["tax-deferred"][n + 1][j] - y2accounts["tax-deferred"][n + 1][j])
    + (last.pre["tax-free"][n + 1][j] - y2accounts["tax-free"][n + 1][j])

\* The latest allocator call left the accounts of individual j alone.
Untouched(j) ==
    /\ \A a \in AccountTypes : y2accounts[a][n + 1][j] = last.pre[a][n + 1][j]
    /\ last.amounts.taxable[j + 1] = 0
    /\ last.amounts.taxdef[j + 1] = 0
    /\ last.amounts.taxfree[j + 1] = 0

\* C14 as stated: the big-ticket item of individual i is applied against the
\* accounts of the other individual, (i + 1) mod 2, and leaves the accounts
\* of individual i alone.
C14_OtherPays ==
    \A i \in {0, 1} :
        (plan.count = 2 /\ BtiJustApplied(i)) =>
            /\ Untouched(i)
            /\ TakenFrom((i + 1) % 2) =
                   (IF last.amount < 0 THEN last.total ELSE -last.total)

\* C14: with two individuals the big-ticket item of individual i is passed
\* to the allocator with the split (i + 1) mod 2, which puts the whole item
\* on the accounts of individual i, its bearer: a positive item is added to
\* the bearer's taxable account, a negative one is drawn from the bearer's
\* accounts as far as they go, and the accounts of the other individual are
\* left alone.
C14_BearerPays ==
    \A i \in {0, 1} :
        (plan.count = 2 /\ BtiJustApplied(i)) =>
            /\ last.called /\ last.commit /\ last.year = n + 1
            /\ last.amount = timeLists[i][n]["big ticket items"]
            /\ last.ratio = Ratio((i + 1) % 2, 1)
            /\ Untouched((i + 1) % 2)
            /\ IF last.amount > 0
               THEN /\ last.total = last.amount
                    /\ y2accounts["taxable"][n + 1][i] =
                           last.pre["taxable"][n + 1][i] + last.amount
                    /\ TakenFrom(i) = -last.amount
               ELSE /\ TakenFrom(i) = last.total
                    /\ last.amounts.taxable[i + 1] + last.amounts.taxdef[i + 1]
                           + last.amounts.taxfree[i + 1] = last.total
                    /\ last.total <= -last.amount
                    /\ (last.total < -last.amount) => ~success

\* The second individual's item is drawn from their own accounts although the
\* first individual's accounts hold money.
C14_Witness ==
    /\ plan.count = 2
    /\ BtiJustApplied(1)
    /\ last.amount < 0
    /\ last.total > 0
    /\ last.amounts.taxdef[2] > 0
    /\ TakenFrom(1) = last.total
    /\ \E a \in AccountTypes : last.pre[a][n + 1][0] > 0

\* One of two spouses has passed; xfer.late is the first who did.
Widowed == plan.count = 2 /\ Started /\ surviving < 2

\* The balances and the flows of individual j.
BooksOf(j) ==
    <<[a \in AccountTypes |-> [y \in DOMAIN y2accounts[a] |-> y2accounts[a][y][j]]],
      [key \in SourceKeys |-> [y \in DOMAIN y2source[key] |-> y2source[key][y][j]]]>>

\* C15: after the first death in a two-person household both split ratios
\* are binary in favour of the survivor, whatever spousal split was set:
\* every allocator call of a later year (reconciliation deposit, withdrawal,
\* big-ticket item) is made with that ratio and returns nothing itemized for
\* the deceased, no step of a later year changes the balances or the flows
\* of the deceased, and the deceased's three balances are 0 at every year
\* index after the year of death.
C15_SurvivorOnly ==
    /\ [](Widowed =>
            /\ xfer.called
            /\ wdrlRatio = Ratio(xfer.late, 1)
            /\ depRatio = Ratio(xfer.late, 1)
            /\ \A a \in AccountTypes :
                   \A y \in (plan.horizons[xfer.late] + 1)..(plan.maxHorizon - 1) :
                       y2accounts[a][y][xfer.late] = 0)
    /\ [][(Widowed /\ surviving' = surviving) =>
            /\ BooksOf(xfer.late)' = BooksOf(xfer.late)
            /\ (last' # last) =>
                   /\ last'.ratio = Ratio(xfer.late, 1)
                   /\ last'.amounts.taxable[xfer.late + 1] = 0
                   /\ last'.amounts.taxdef[xfer.late + 1] = 0
                   /\ last'.amounts.taxfree[xfer.late + 1] = 0]_vars

\* Under a fixed spousal split of 1/2 a withdrawal of a year after the first
\* death has been drawn from the survivor's accounts.
C15_Witness ==
    /\ Widowed
    /\ surviving = 1
    /\ ~plan.split.auto
    /\ n > plan.horizons[xfer.late]
    /\ pc = "yearend"
    /\ last.commit /\ last.year = n + 1 /\ last.amount < 0 /\ last.total > 0
    /\ last.ratio = Ratio(xfer.late, 1)

\* The year index of the first death in a two-person household.
FirstDeath == Min(plan.horizons[0], plan.horizons[1])

\* The base target times the survivor fraction.
SurvivorTarget == MulDiv(plan.target, SurvivorFraction.num, SurvivorFraction.den)

\* The base target that year y uses.
BaseTarget(y) ==
    IF plan.count = 2 /\ y > FirstDeath THEN SurvivorTarget ELSE plan.target

\* C16: in a two-person household the base target is multiplied by the
\* survivor fraction exactly once per run, at the end of the year of the
\* first death: the target of every year up to and including that year is
\* computed from the unreduced base, the target of every later year from
\* base * survivorFraction (before the age adjustment and inflation); a
\* one-person household keeps the base; run() leaves Plan.target unchanged.
C16_TargetReducedOnce ==
    /\ [](Started =>
            /\ rawTarget = (IF Widowed THEN SurvivorTarget ELSE plan.target)
            /\ \A y \in 0..(plan.maxHorizon - 1) :
                   Reconciled(y) =>
                       yincome["target"][y] = TargetIncomeOf(BaseTarget(y), y))
    /\ [][/\ plan' = plan
          /\ (Started /\ rawTarget' # rawTarget) =>
                 /\ pc = "yearend" /\ n = FirstDeath
                 /\ surviving = 2 /\ surviving' < 2
                 /\ rawTarget = plan.target /\ rawTarget' = SurvivorTarget]_vars

\* A year after the first death has its target computed from the reduced
\* base, and the unreduced base would have given another target.
C16_Witness ==
    /\ Widowed /\ surviving = 1
    /\ n > FirstDeath
    /\ Reconciled(n)
    /\ Reconciled(FirstDeath)
    /\ yincome["target"][n] = TargetIncomeOf(SurvivorTarget, n)
    /\ yincome["target"][n] # TargetIncomeOf(plan.target, n)
    /\ yincome["target"][FirstDeath] = TargetIncomeOf(plan.target, FirstDeath)

-----------------------------------------------------------------------------
(* Properties of repeated calls of run() (specification SpecAgain).         *)

\* The second call of run() on the instance has returned.
ReturnedAgain == pc = "done" /\ runs = 2

\* C13: calling run() twice in a row on the same instance, nothing set in
\* between, yields identical results: the second call leaves the account
\* balances, the source ledger, the income ledger and the success flag that
\* the first call left, whatever the first call's outcome was.
C13_Repeatable == ReturnedAgain => Outcome = prior

\* The filing status of year y: two individuals alive at its start or not.
StatusOf(y) ==
    IF plan.count = 2 /\ y <= FirstDeath THEN "married" ELSE "single"

\* The income tax of the gross income recorded for year y, filed as status.
TaxFiled(y, status) ==
    IncomeTax(yincome["gross"][y], YobSeq, status, Yyear(y), plan.rates)

\* A call of run() begins.
RunBegins == pc \in {"idle", "done"} /\ pc' = "indiv"

\* C17: within a run the income tax of year n is computed as 'married'
\* exactly when two individuals are alive at the start of year n and as
\* 'single' otherwise (one-person household, or a year after the first
\* death); the status never goes from 'single' back to 'married' within a
\* run, and each new run of a two-person plan starts as 'married' again.
C17_FilingStatus ==
    /\ [](Started =>
            /\ filingStatus = (IF plan.count = 2 /\ surviving = 2
                               THEN "married" ELSE "single")
            /\ \A y \in 0..(plan.maxHorizon - 1) :
                   Reconciled(y) => yincome["taxes"][y] = TaxFiled(y, StatusOf(y)))
    /\ [][/\ (filingStatus = "single" /\ filingStatus' = "married") => RunBegins
          /\ RunBegins =>
                 filingStatus' = (IF plan.count = 2 THEN "married" ELSE "single")]_vars

\* The run after a run that saw the first death files the years up to the
\* first death as married and a later year as single, with taxes that the
\* other status would not have given.
C17_Witness ==
    /\ ReturnedAgain
    /\ plan.count = 2
    /\ prior.income["taxes"][n] > 0
    /\ n > FirstDeath
    /\ filingStatus = "single"
    /\ yincome["taxes"][n] = TaxFiled(n, "single")
    /\ yincome["taxes"][n] # TaxFiled(n, "married")
    /\ yincome["taxes"][0] = TaxFiled(0, "married")
    /\ yincome["taxes"][0] # TaxFiled(0, "single")

-----------------------------------------------------------------------------
(* Properties of rmdFraction (specification SpecRmd).                       *)

\* The age rmdFraction computes for the latest call.
RmdAge == rmdCall.year - rmdCall.yob

\* The RMD start age that applies to a calendar year.
RmdStartAge(year) == IF year > 2032 THEN 75 ELSE IF year > 2023 THEN 73 ELSE 72

\* C19: RMD gating is monotonic in time: the fraction is 0 in every calendar
\* year in which the age is below the start age that applies to that year
\* (72 up to 2023, 73 for 2024-2032, 75 after 2032), and once the fraction
\* has been positive in some year it is positive in every later year.
C19_GatingMonotonic ==
    rmdCall.calls > 0 =>
        /\ (RmdAge < RmdStartAge(rmdCall.year)) => rmdCall.fraction.num = 0
        /\ (rmdCall.positive.num > 0) => rmdCall.fraction.num > 0

\* C20 as stated: from one age at or above the start age to the next, the
\* fraction returned gets smaller.
C20_FractionDecreasing ==
    (rmdCall.calls > 0 /\ rmdCall.positive.num > 0 /\ rmdCall.fraction.num > 0) =>
        rmdCall.fraction.num * rmdCall.positive.den
            < rmdCall.positive.num * rmdCall.fraction.den

\* C20: for ages at or above the RMD start age the fraction returned by
\* rmdFraction, 1/table[age - 72], is strictly increasing with increasing
\* age: the divisors of the table are strictly decreasing.
C20_FractionIncreasing ==
    (rmdCall.calls > 0 /\ rmdCall.positive.num > 0 /\ rmdCall.fraction.num > 0) =>
        rmdCall.fraction.num * rmdCall.positive.den
            > rmdCall.positive.num * rmdCall.fraction.den

\* Fractions have been returned for the ages 79 to 85 and beyond.
C20_Witness ==
    /\ rmdCall.calls > 6
    /\ RmdAge >= 85
    /\ rmdCall.yob = 1945
    /\ rmdCall.positive = Ratio(10, RmdTable[RmdAge - 72])
    /\ rmdCall.fraction = Ratio(10, RmdTable[RmdAge - 72 + 1])

-----------------------------------------------------------------------------
(* Properties of the assets allocation ratios (specification SpecAR).       *)

\* The vector sums to 1 within 1e-6.
SumsToOne(v) == Abs(Sum4(v) - Micro) <= 1

\* C18: after setting bounds that each sum to 100% and interpolating (and,
\* in coordinated mode, after run() has re-derived the per-account ratios),
\* for every year index of the table, every account type and every
\* individual, the 4-component ratio vector sums to 1 within 1e-6.
C18_RatiosNormalized ==
    (pc = "ar" /\ ar.fresh) =>
        \A a \in AccountTypes : \A y \in 0..(plan.maxHorizon - 1) : \A i \in Who :
            SumsToOne(ar.y2assetRatios[a][y][i])

\* The same for the rows that run() reads: those of the years balanced so
\* far, for the individuals within their horizon.
RatiosNormalizedWhereRead ==
    (pc = "ar" /\ ar.fresh) =>
        \A a \in AccountTypes : \A y \in 0..(n - 1) : \A i \in Who :
            (y <= plan.horizons[i]) => SumsToOne(ar.y2assetRatios[a][y][i])

-----------------------------------------------------------------------------
(* Properties of the rates (specification SpecRates).                       *)

\* The latest call of setRates asked for what the configuration rules forbid:
\* a range-based method with a year outside the window, or 'fixed' without
\* values.
BadRateConfig ==
    /\ dr.calls > 0
    /\ \/ /\ dr.method \in {"historical", "average", "stochastic"}
          /\ (dr.frm < FROM \/ dr.frm > TO \/ dr.to < FROM \/ dr.to > TO)
       \/ dr.method = "fixed" /\ dr.values = << >>

\* C21: selecting a range-based method (historical, average, stochastic)
\* with a from-year or to-year outside [1928, 2023] fails, and selecting
\* 'fixed' without values fails; in neither case is a rate series produced
\* or stored in the plan: the plan is as it was before the call.
C21_BadConfigFails ==
    /\ [](BadRateConfig => (dr.failed /\ dr.raised))
    /\ [][BadRateConfig' => plan' = plan]_vars

\* A historical range ending in 2024 has been refused after a call that had
\* stored a historical series, which the plan still holds.
C21_Witness ==
    /\ BadRateConfig
    /\ dr.calls = 2
    /\ dr.method = "historical" /\ dr.frm = FROM /\ dr.to = TO + 1
    /\ dr.failed
    /\ plan.rateMethod = "historical" /\ plan.rateTo = FROM + 1
    /\ plan.rates[0] = HistRates(0)

\* The plan holds the series of a historical replay.
HistoricalStored ==
    dr.calls > 0 /\ ~dr.raised /\ dr.method = "historical"

\* C22: with the historical method over the inclusive range [frm, to],
\* element k of genSeries(frm, to, n) is the table row of year
\* frm + (k mod (to - frm + 1)) for every 0 <= k < n, so every row used lies
\* inside [frm, to] even when n exceeds the span.
C22_HistoricalWraps ==
    HistoricalStored =>
        /\ DOMAIN plan.rates = 0..(plan.maxHorizon - 1)
        /\ \A k \in 0..(plan.maxHorizon - 1) :
               /\ plan.rates[k].from = "table"
               /\ plan.rates[k].year = dr.frm + (k % (dr.to - dr.frm + 1))
               /\ dr.frm <= plan.rates[k].year /\ plan.rates[k].year <= dr.to

\* A series of five years over 1928-1929 has come round twice.
C22_Witness ==
    /\ HistoricalStored
    /\ dr.frm = FROM /\ dr.to = FROM + 1
    /\ plan.maxHorizon = 5
    /\ plan.rates[2].year = FROM
    /\ plan.rates[3].year = FROM + 1
    /\ plan.rates[4].year = FROM

-----------------------------------------------------------------------------
(* The estate reported after run().                                         *)

\* "sum(self.y2accounts[aType][row][:])"
SumRow(aType, row) == SumOver(y2accounts[aType], row)

\* The post-tax total of the balances of year index row, the tax rate taxRate
\* in percent: taxable + tax-free + (1 - taxRate) * tax-deferred.
PostTax(row, taxRate) ==
    SumRow("taxable", row) + SumRow("tax-free", row)
        + MulDiv(SumRow("tax-deferred", row), 100 - taxRate, 100)

\* "div = tx.inflationAdjusted(1., self.maxHorizon-2, self.rates)", in
\* ten-thousandths.
EstateDiv == InflationAdjusted(10000, plan.maxHorizon - 2, plan.rates, 0)

\* Plan._estate(taxRate): the index -2 of the arrays of maxHorizon rows is
\* the row maxHorizon - 2.
Estate(taxRate) ==
    [value |-> MulDiv(PostTax(plan.maxHorizon - 2, taxRate), 10000, EstateDiv),
     div |-> EstateDiv - 10000]

\* The tax rates on the tax-deferred part of the estate that are compared.
EstateTaxRates == {0, 25}

\* C23: the estate reported after run() is computed from the balances
\* produced by the last simulated year of that run (the row n + 1 written
\* by year n): taxable + tax-free + (1 - taxRate) * tax-deferred, deflated
\* by the cumulative inflation, also when the run ended early.
C23_EstateFromTerminalBalances ==
    pc = "done" =>
        \A t \in EstateTaxRates :
            Estate(t).value = MulDiv(PostTax(n + 1, t), 10000, EstateDiv)

\* The half of C23 that the code keeps whatever the run: the estate is the
\* post-tax total of the row maxHorizon - 2, which run() wrote only if it
\* reached the year maxHorizon - 3.
EstateFromRowBeforeLast ==
    pc = "done" =>
        /\ Estate(0).value = MulDiv(PostTax(plan.maxHorizon - 2, 0), 10000, EstateDiv)
        /\ n < plan.maxHorizon - 3 => Estate(0).value = 0

-----------------------------------------------------------------------------
(* Properties of interpolateAR (specification SpecAR).                      *)

\* The account types whose rows interpolateAR fills in the record r.
TypesFilled(r) ==
    IF r.coordinatedAR = "none" THEN AccountTypes ELSE {"coordinated"}

\* The number of rows interpolateAR fills for individual i in the record r.
RowsFilled(r, i) ==
    IF r.coordinatedAR = "both" THEN plan.maxHorizon ELSE plan.horizons[i] + 2

\* The individuals whose rows interpolateAR fills in the record r.
WhoFilled(r) == IF r.coordinatedAR = "both" THEN {0} ELSE Who

\* Every row that interpolateAR fills lies between the initial and the final
\* bound, as both a + 0.5*(b - a)*(1 + tanh((t - c)/w)) and the straight
\* line from a to b do, component by component.
BetweenBounds(r) ==
    \A a \in TypesFilled(r) : \A i \in WhoFilled(r) :
        \A y \in 0..(RowsFilled(r, i) - 1) : \A j \in 1..4 :
            /\ Min(r.boundsAR[a][0][i][j], r.boundsAR[a][1][i][j])
                   <= r.y2assetRatios[a][y][i][j]
            /\ r.y2assetRatios[a][y][i][j]
                   <= Max(r.boundsAR[a][0][i][j], r.boundsAR[a][1][i][j])

\* C24: interpolateAR fills the table for both methods: after
\* interpolateAR('s-curve', center, width) every year's ratio is
\* initial + 0.5*(final - initial)*(1 + tanh((t - center)/width)), hence
\* between the initial and the final bound (and equal to them where they are
\* equal), just as 'linear' fills the straight line.
C24_SCurveFills ==
    [][(/\ ~ar.fresh
        /\ ar' = [InterpolatedAR(ar, "s-curve") EXCEPT !.fresh = TRUE])
       => BetweenBounds(ar')]_vars

\* The half of C24 that holds: every call of interpolateAR('linear') leaves
\* the rows it fills between the bounds.
LinearFills ==
    [][(/\ ~ar.fresh
        /\ ar' = [InterpolatedAR(ar, "linear") EXCEPT !.fresh = TRUE])
       => BetweenBounds(ar')]_vars

-----------------------------------------------------------------------------
(* Properties of the deposit of a surplus (specification Spec).             *)

\* The surplus of year n has been deposited.
DepositDone ==
    /\ pc = "yearend" /\ gap >= 0
    /\ last.called /\ last.commit /\ last.year = n + 1 /\ last.amount = gap

\* Individual 0's share of the household's job, social security, pension and
\* RMD income of year y, the household's sum increased by 1.
IncomeRatioOf(y) ==
    LET Inc(i) == y2source["job"][y][i] + y2source["ssec"][y][i]
                  + y2source["pension"][y][i] + y2source["rmd"][y][i]
    IN  Ratio(Inc(0), Inc(0) + Inc(1) + 1)

\* What the taxable account of individual i gained in the deposit.
Gained(i) ==
    y2accounts["taxable"][n + 1][i] - last.pre["taxable"][n + 1][i]

\* C25 as stated: when net >= target, the surplus deposited in the taxable
\* accounts is divided by the prior year's income ratio when both are
\* surviving (from year 1 on), and by the configured spousal split otherwise.
C25_PriorYearRatio ==
    DepositDone =>
        /\ (surviving = 2 /\ n >= 1) => last.ratio = IncomeRatioOf(n - 1)
        /\ (plan.count = 2 /\ surviving = 1 /\ ~plan.split.auto) =>
               last.ratio = plan.split.ratio

\* C25: when net >= target, the surplus deposited in the taxable accounts is
\* divided by the income ratio of the same year n when both are surviving
\* (individual 0 gets its share of the job, social security, pension and RMD
\* income of year n, the household's sum increased by 1), and goes whole to
\* the survivor otherwise, whatever the configured spousal split; a single
\* individual gets the whole.
C25_ThisYearRatio ==
    DepositDone =>
        /\ surviving = 2 =>
               /\ last.ratio = IncomeRatioOf(n)
               /\ Gained(0) = MulDiv(gap, last.ratio.num, last.ratio.den)
        /\ (plan.count = 2 /\ surviving = 1) =>
               /\ xfer.called
               /\ last.ratio = Ratio(xfer.late, 1)
               /\ Gained(1 - xfer.late) = gap
               /\ Gained(xfer.late) = 0
        /\ plan.count = 1 => (last.ratio = One /\ Gained(0) = gap)

\* A surplus has been split between two spouses in a year whose income ratio
\* is not that of the year before.
C25_Witness ==
    /\ DepositDone
    /\ surviving = 2 /\ n >= 1 /\ gap > 0
    /\ IncomeRatioOf(n) # IncomeRatioOf(n - 1)
    /\ Gained(0) > 0 /\ Gained(1) > 0

\* A surplus has gone to the survivor of a couple with a configured split.
SurvivorDeposit ==
    /\ DepositDone
    /\ plan.count = 2 /\ surviving = 1 /\ gap > 0 /\ ~plan.split.auto

-----------------------------------------------------------------------------
(* Properties of the ledger of a year (specification Spec).                 *)

\* The ledger of year n is complete.
YearBooked == pc = "yearend"

\* The premium of one individual in year n: from the recorded gross income
\* of year max(0, n - 2), with the filing status of year n.
Premium ==
    Irmaa(yincome["gross"][Max(0, n - 2)], filingStatus, Yyear(n), plan.rates)

\* Individual i is alive in year n and 65 or more.
Insured(i) == Y2ages(n, i) >= 65 /\ n <= plan.horizons[i]

\* C26: in every simulated year n, whether run() deposits or withdraws, the
\* recorded IRMAA equals the sum, over the individuals alive in year n and
\* aged 65 or more, of the premium computed from the recorded gross income
\* of year max(0, n - 2) with the filing status of year n; it is 0 when no
\* living individual is 65 or more.
C26_IrmaaPerInsured ==
    YearBooked =>
        yincome["irmaa"][n] = Cardinality({i \in Who : Insured(i)}) * Premium

\* The half of C26 that holds: in a year whose surplus is deposited the
\* recorded IRMAA is one premium for each individual alive and 65 or more.
IrmaaOfDepositYear ==
    (YearBooked /\ gap >= 0) =>
        yincome["irmaa"][n] = Cardinality({i \in Who : Insured(i)}) * Premium

\* In a year that ends with a withdrawal the recorded IRMAA is one premium,
\* however many individuals are alive and 65 or more.
IrmaaOfWithdrawalYear ==
    (YearBooked /\ gap < 0) => yincome["irmaa"][n] = Premium

-----------------------------------------------------------------------------
(* Properties of the Roth conversion (specification Spec).                  *)

\* The step is the pass of individual who in year n.
PassOfIndividual == pc = "indiv" /\ n <= plan.horizons[who] /\ who' = who + 1

\* The conversion requested of individual i in year n, as run() read it.
Requested(i) == timeLists[i][n]["Roth X"]

\* min(requested, tax-deferred balance) at the start of year n, for the
\* individual who is about to pass.
Converted == Min(timeLists'[who][n]["Roth X"], y2accounts["tax-deferred"][n][who])

\* The RMD of the year on the tax-deferred balance b grown with the
\* contributions c.
RmdOn(b, c) ==
    LET pf == PfReturn(AssetRatios("tax-deferred"), plan.rates, n, who)
        f == RmdFraction(Yyear(n), plan.yob[who])
    IN  MulDiv(y2accounts["tax-deferred"][n + 1][who] + b + c + Growth(b, c, pf),
               f.num, f.den)

\* C27: at the start of year n, before growth and RMD, exactly
\* min(requested, tax-deferred balance) moves from the tax-deferred to the
\* tax-free account of the individual: the sum of the two buckets and the
\* taxable account are unchanged, growth and RMD are computed on the balances
\* after the conversion; the amount is recorded as the Roth conversion of the
\* year, is part of the gross taxable income that is taxed, and is no part of
\* the net income.
C27_RothConversion ==
    /\ [][PassOfIndividual =>
          /\ y2accounts'["tax-deferred"][n][who]
                 = y2accounts["tax-deferred"][n][who] - Converted
          /\ y2accounts'["tax-free"][n][who]
                 = y2accounts["tax-free"][n][who] + Converted
          /\ y2accounts'["taxable"][n] = y2accounts["taxable"][n]
          /\ \A a \in AccountTypes : \A j \in Who :
                 j # who => y2accounts'[a][n][j] = y2accounts[a][n][j]
          /\ y2source'["RothX"][n][who] = Converted
          /\ yincome'["RothX"][n] = yincome["RothX"][n] + Converted
          /\ y2source'["rmd"][n][who]
                 = RmdOn(y2accounts["tax-deferred"][n][who] - Converted,
                         timeLists'[who][n]["ctrb 401k"] + timeLists'[who][n]["ctrb IRA"])
         ]_vars
    /\ [](YearBooked =>
          /\ yincome["RothX"][n] = SumOver(y2source["RothX"], n)
          /\ yincome["gross"][n]
                 = yincome["taxable"][n] + yincome["RothX"][n] + btiEvent
          /\ yincome["taxes"][n] = Tax(yincome["gross"][n])
          /\ yincome["net"][n]
                 = yincome["tax-free"][n] + yincome["taxable"][n] - yincome["taxes"][n])

\* A conversion of 60000 was requested of an individual who held less: what
\* was held has been converted, taxed, and the year is booked.
C27_Witness ==
    /\ YearBooked
    /\ \E i \in Who :
           /\ n \in DOMAIN timeLists[i]
           /\ Requested(i) = 60000
           /\ y2source["RothX"][n][i] > 0
           /\ y2source["RothX"][n][i] < 60000
           /\ y2accounts["tax-deferred"][n][i] = 0
    /\ yincome["taxes"][n] > 0

-----------------------------------------------------------------------------
(* Properties of the ledger of every year (specification Spec).             *)

\* The tax-deferred money that the withdrawal of year n took.
DrawnTaxable == IF gap < 0 THEN last.amounts.taxdef[0] ELSE 0

\* The taxable part of the big-ticket withdrawals of year n: the
\* distributions of the year that the withdrawal did not make.
BtiTaxable == SumOver(y2source["dist"], n) - DrawnTaxable

\* C29: for every simulated year, in the deposit branch and in the
\* withdrawal branch (a year that runs out of money included), the recorded
\* gross income equals the recorded taxable income plus the Roth conversions
\* plus the taxable part of the big-ticket withdrawals, the recorded tax is
\* the income tax on exactly that gross, and the recorded net income is
\* tax-free plus taxable minus tax.
C29_LedgerConsistent ==
    YearBooked =>
        /\ BtiTaxable = btiEvent
        /\ yincome["gross"][n]
               = yincome["taxable"][n] + SumOver(y2source["RothX"], n) + BtiTaxable
        /\ yincome["taxes"][n]
               = IncomeTax(yincome["gross"][n], YobSeq, filingStatus, Yyear(n),
                           plan.rates)
        /\ yincome["net"][n]
               = yincome["tax-free"][n] + yincome["taxable"][n] - yincome["taxes"][n]

\* A year that ran out of money has been booked, with tax to pay and part of
\* a big-ticket withdrawal taxable.
C29_Witness ==
    /\ YearBooked
    /\ WithdrawalShort
    /\ ~success
    /\ BtiTaxable > 0
    /\ DrawnTaxable > 0
    /\ yincome["taxes"][n] > 0

-----------------------------------------------------------------------------
(* Properties of the age passed to _spendingAdjustment (specification       *)
(* SpecHouseholds).                                                         *)

\* Every life expectancy of the household is at most 100.
ValidHousehold == \A i \in Who : plan.expectancy[i] <= 100

\* run() is about to compute the target of year n.
TargetDue == pc = "reconcile"

\* C30: for a valid household with life expectancies of at most 100 the age
\* assertion of _spendingAdjustment never fails during run(): the age passed
\* (the largest age of the household in year n) is at most 100 in every
\* simulated year.
C30_AgeAssertionHolds ==
    (ValidHousehold /\ TargetDue) => AgeAsserted(MaxAge(n))

\* The half of C30 that holds: the age of every individual within their
\* horizon is at most 100, and for a single individual so is the age passed.
AgeOfTheLiving ==
    (ValidHousehold /\ TargetDue) =>
        /\ \A i \in Who : n <= plan.horizons[i] => Y2ages(n, i) <= 100
        /\ plan.count = 1 => AgeAsserted(MaxAge(n))

\* run() has returned for an individual who reached 100 in the last year.
CentenarianReturned ==
    pc = "done" /\ plan.count = 1 /\ Y2ages(n, 0) = 100 /\ success

-----------------------------------------------------------------------------
(* Plan.readContributions(filename): _readTimeLists and _checkTimeLists on   *)
(* the sheets of a file, one sheet for each individual.                      *)

MaxSheetLen == 3

\* The rows a sheet may hold besides the quiet one: money taken back out of
\* the taxable contributions, a Roth conversion, a purchase.
SheetRows ==
    {Quiet, Row(0, -20000, 0, 0, 0, 0), Row(0, 0, 0, 0, 60000, 0),
     Row(0, 0, 0, 0, 0, -120000)}

\* A sheet: consecutive years from last year, this year or next year on, at
\* most one row of which is not quiet.  Lists are indexed from 0.
Sheets ==
    {[k \in 0..(len - 1) |->
         [year |-> first + k, row |-> IF k = at THEN r ELSE Quiet]] :
        first \in (ThisYear - 1)..(ThisYear + 1), len \in 1..MaxSheetLen,
        at \in 0..(MaxSheetLen - 1), r \in SheetRows}

\* "dfDict[name] = dfDict[name][dfDict[name]['year'] >= now]" and ".tolist()"
\* for a sheet in the order of its years.
SinceNow(sheet) ==
    LET len == Cardinality(DOMAIN sheet)
        kept == Cardinality({k \in DOMAIN sheet : sheet[k].year >= ThisYear})
    IN  [k \in 0..(kept - 1) |-> sheet[k + len - kept]]

\* _readTimeLists(filename, n): the first n sheets of the file.
ReadTimeLists(file, cnt) == [i \in 0..(cnt - 1) |-> SinceNow(file[i])]

\* The length of a list.
Length(list) == Cardinality(DOMAIN list)

\* "if timeLists[0]['year'][0] != timeLists[1]['year'][0]"
SameStart(lists) == lists[0][0].year = lists[1][0].year

\* "if timeLists[i]['year'][-1] < yend"
TooShort(lists, i) == lists[i][Length(lists[i]) - 1].year < ThisYear + plan.horizons[i]

\* An assertion on entry nn of every list of individual i but the big-ticket
\* items.
EntryAsserted(lists, i, nn) ==
    /\ lists[i][nn].year >= 0
    /\ \A item \in Items \ {"big ticket items"} : lists[i][nn].row[item] >= 0

\* "for n in range(horizons[i]): ... assert timeLists[i][item][i] >= 0": the
\* entry asserted is entry i in every pass of the loop over n.
Asserted(lists, i) ==
    \A nn \in 0..(plan.horizons[i] - 1) : EntryAsserted(lists, i, i)

\* _checkTimeLists(names, timeLists, horizons): "ok", or how it ends.
CheckOutcome(lists) ==
    IF plan.count = 2 /\ (Length(lists[0]) = 0 \/ Length(lists[1]) = 0)
    THEN "IndexError"
    ELSE IF plan.count = 2 /\ ~SameStart(lists) THEN "exit"
    ELSE IF \E i \in Who : Length(lists[i]) = 0 THEN "IndexError"
    ELSE IF \E i \in Who : TooShort(lists, i) THEN "exit"
    ELSE IF \E i \in Who : plan.horizons[i] > 0 /\ i >= Length(lists[i])
    THEN "IndexError"
    ELSE IF \E i \in Who : ~Asserted(lists, i) THEN "AssertionError"
    ELSE "ok"

LoadPlans ==
    {[count |-> 1, horizons |-> [i \in {0} |-> h]] : h \in 0..2}
    \cup
    {[count |-> 2, horizons |-> h] : h \in {<<2, 1>>, <<1, 2>>, <<0, 2>>}}

LoadInit ==
    /\ AtRest
    /\ pc = "file"
    /\ rmdCall = << >>
    /\ ar = << >>
    /\ dr = << >>
    /\ \E p \in LoadPlans :
           plan = [count |-> p.count,
                   horizons |-> [i \in 0..(p.count - 1) |->
                                    IF p.count = 1 THEN p.horizons[0]
                                    ELSE p.horizons[i + 1]]]
    /\ \E file \in [{0, 1} -> Sheets] :
           load = [file |-> file, outcome |-> "none"]

\* readContributions(filename): self.timeLists is assigned before the check.
ReadContributions ==
    /\ pc = "file"
    /\ \E lists \in {ReadTimeLists(load.file, plan.count)} :
           /\ timeLists' = lists
           /\ load' = [load EXCEPT !.outcome = CheckOutcome(lists)]
           /\ pc' = IF CheckOutcome(lists) = "ok" THEN "loaded" ELSE "raised"
    /\ UNCHANGED <<plan, success, y2accounts, y2source, yincome, n, who,
                   surviving, wdrlRatio, depRatio, filingStatus, rawTarget,
                   btiEvent, withdrawal, kround, estimatedTax, gap, xfer, last,
                   ncalls, runs, prior, rmdCall, dr, ar>>

LoadNext == ReadContributions

SpecLoad == LoadInit /\ [][LoadNext]_vars

-----------------------------------------------------------------------------
(* Properties of the loader (specification SpecLoad).                       *)

\* readContributions has returned normally.
Accepted == pc = "loaded"

\* Every value other than the big-ticket items is non-negative in every year
\* that the check is to cover: the entries 0..horizons[i]-1 of individual i.
NonNegativeWithinHorizon ==
    \A i \in Who : \A nn \in 0..(plan.horizons[i] - 1) :
        nn \in DOMAIN timeLists[i] =>
            \A item \in Items \ {"big ticket items"} : timeLists[i][nn].row[item] >= 0

\* The schedules start the same year and reach each individual's horizon year.
CoversHorizons ==
    /\ \A i \in Who : Length(timeLists[i]) > 0
    /\ plan.count = 2 => timeLists[0][0].year = timeLists[1][0].year
    /\ \A i \in Who :
           timeLists[i][Length(timeLists[i]) - 1].year >= ThisYear + plan.horizons[i]

\* C28: a contribution schedule is accepted only if both individuals'
\* schedules start the same year, each extends at least to that individual's
\* horizon year, and every value other than the big-ticket items is
\* non-negative in every year within the horizon; otherwise loading fails.
C28_ScheduleValidated ==
    Accepted => (CoversHorizons /\ NonNegativeWithinHorizon)

\* The half of C28 that holds: an accepted schedule starts the same year for
\* both and reaches each horizon year, and a schedule that does not is
\* refused.
ScheduleCovers ==
    /\ Accepted => CoversHorizons
    /\ (pc = "raised" /\ load.outcome = "exit") => ~CoversHorizons

====
